---- MODULE Spec2Model ----
(***************************************************************************)
(* finbot: the conversation orchestrator (agent/orchestrator.py), the      *)
(* conversation store (agent/state.py) and the ledger writes they cause.   *)
(*                                                                         *)
(* Python None is the string None for text-valued fields and NoneNum for   *)
(* number-valued fields.  A message text is one of the sample strings of   *)
(* Texts; Chars gives its characters, on which the text functions of the   *)
(* orchestrator (regular-expression heuristics, number extraction, split   *)
(* parsing) are computed.  The sample texts hold no decimal point, no      *)
(* thousands separator and no ISO date.                                    *)
(***************************************************************************)
EXTENDS Integers, Sequences, FiniteSets, TLC

None == "None"
NoneNum == 0 - 999

\* ------------------------------------------------------------------------
\* Bounds of the model
\* ------------------------------------------------------------------------
MaxExpenses == 2
MaxMessages == 2
MaxLedger == 3

Users == {1}

\* ------------------------------------------------------------------------
\* Texts and their characters
\* ------------------------------------------------------------------------
Texts ==
  {"groceries 300", "settled up 300", "settle up", "my balance",
   "partner", "50/50"}

\* What a user can answer to a clarification question: the texts, and
\* answers to the questions about payer, amount and split.
Answers ==
  Texts \cup {"me", "300", "70/30", "60/30", "150/-50", "60%", "150", "groceries"}

Vocabulary == Answers \cup {" Dining", "dining", "", "groceries"}

Chars(t) ==
  CASE t = "groceries 300" -> <<"g","r","o","c","e","r","i","e","s"," ","3","0","0">>
    [] t = "settled up 300" -> <<"s","e","t","t","l","e","d"," ","u","p"," ","3","0","0">>
    [] t = "settle up" -> <<"s","e","t","t","l","e"," ","u","p">>
    [] t = "my balance" -> <<"m","y"," ","b","a","l","a","n","c","e">>
    [] t = "partner" -> <<"p","a","r","t","n","e","r">>
    [] t = "50/50" -> <<"5","0","/","5","0">>
    [] t = "me" -> <<"m","e">>
    [] t = "300" -> <<"3","0","0">>
    [] t = "70/30" -> <<"7","0","/","3","0">>
    [] t = "60/30" -> <<"6","0","/","3","0">>
    [] t = "150/-50" -> <<"1","5","0","/","-","5","0">>
    [] t = "60%" -> <<"6","0","%">>
    [] t = "150" -> <<"1","5","0">>
    [] t = " Dining" -> <<" ","D","i","n","i","n","g">>
    [] t = "dining" -> <<"d","i","n","i","n","g">>
    [] t = "groceries" -> <<"g","r","o","c","e","r","i","e","s">>
    [] t = "" -> <<>>

Str(cs) == CHOOSE s \in Vocabulary : Chars(s) = cs

Digits == <<"0","1","2","3","4","5","6","7","8","9">>
LowerLetters ==
  {"a","b","c","d","e","f","g","h","i","j","k","l","m",
   "n","o","p","q","r","s","t","u","v","w","x","y","z"}
UpperLetters == {"A", "D", "E", "I", "K", "L", "M", "P", "R", "U"}

IsDigit(c) == \E d \in 1..10 : Digits[d] = c
DigitVal(c) == (CHOOSE d \in 1..10 : Digits[d] = c) - 1
IsSpace(c) == c = " "
IsWordChar(c) == IsDigit(c) \/ c \in LowerLetters \/ c \in UpperLetters \/ c = "_"

LowerChar(c) ==
  CASE c = "A" -> "a" [] c = "D" -> "d" [] c = "E" -> "e" [] c = "I" -> "i"
    [] c = "K" -> "k" [] c = "L" -> "l" [] c = "M" -> "m" [] c = "P" -> "p"
    [] c = "R" -> "r" [] c = "U" -> "u"
    [] OTHER -> c

lower(cs) == [i \in 1..Len(cs) |-> LowerChar(cs[i])]

RECURSIVE strip(_)
strip(cs) ==
  IF cs = <<>> THEN cs
  ELSE IF IsSpace(cs[1]) THEN strip(Tail(cs))
  ELSE IF IsSpace(cs[Len(cs)]) THEN strip(SubSeq(cs, 1, Len(cs) - 1))
  ELSE cs

\* str.replace(" ", "")
remove_spaces(cs) == SelectSeq(cs, LAMBDA c : ~IsSpace(c))

\* float(s) for an optionally signed string of decimal digits; ok is FALSE
\* where Python raises ValueError.
RECURSIVE DigitsValue(_)
DigitsValue(cs) ==
  IF cs = <<>> THEN 0
  ELSE 10 * DigitsValue(SubSeq(cs, 1, Len(cs) - 1)) + DigitVal(cs[Len(cs)])

AllDigits(s) == s # <<>> /\ \A i \in 1..Len(s) : IsDigit(s[i])

float(cs) ==
  LET s == strip(cs) IN
  IF AllDigits(s) THEN [ok |-> TRUE, val |-> DigitsValue(s)]
  ELSE IF s # <<>> /\ s[1] = "-" /\ AllDigits(Tail(s))
    THEN [ok |-> TRUE, val |-> 0 - DigitsValue(Tail(s))]
  ELSE IF s # <<>> /\ s[1] = "+" /\ AllDigits(Tail(s))
    THEN [ok |-> TRUE, val |-> DigitsValue(Tail(s))]
  ELSE [ok |-> FALSE, val |-> NoneNum]

\* ------------------------------------------------------------------------
\* Regular expressions: a pattern is a sequence of literal characters and
\* of the tokens "\\b" (word boundary), "\\s+" (one or more blanks) and
\* "\\d" (one digit); re_search looks for a match at any position.
\* ------------------------------------------------------------------------
IsWordAt(s, i) == i >= 1 /\ i <= Len(s) /\ IsWordChar(s[i])
Boundary(s, i) == IsWordAt(s, i - 1) # IsWordAt(s, i)

RECURSIVE MatchAt(_, _, _, _)
MatchAt(pat, k, s, i) ==
  IF k > Len(pat) THEN TRUE
  ELSE
    LET e == pat[k] IN
    CASE e = "\\b" -> Boundary(s, i) /\ MatchAt(pat, k + 1, s, i)
      [] e = "\\s+" ->
           \E j \in (i + 1)..(Len(s) + 1) :
             /\ \A m \in i..(j - 1) : IsSpace(s[m])
             /\ MatchAt(pat, k + 1, s, j)
      [] e = "\\d" -> i <= Len(s) /\ IsDigit(s[i]) /\ MatchAt(pat, k + 1, s, i + 1)
      [] OTHER -> i <= Len(s) /\ s[i] = e /\ MatchAt(pat, k + 1, s, i + 1)

re_search(pat, s) == \E i \in 1..(Len(s) + 1) : MatchAt(pat, 1, s, i)

re_any(pats, s) == \E p \in pats : re_search(p, s)

\* ------------------------------------------------------------------------
\* Text heuristics of the orchestrator
\* ------------------------------------------------------------------------
W_settle == <<"s","e","t","t","l","e">>
W_settled == W_settle \o <<"d">>
W_category == <<"c","a","t","e","g","o","r","y">>
W_total == <<"t","o","t","a","l">>
W_transfer == <<"t","r","a","n","s","f","e","r">>
B == <<"\\b">>
S == <<"\\s+">>

SettlementPatterns ==
  { B \o W_settle, W_settled, W_settle \o <<"m","e","n","t">>,
    W_settled \o <<" ","u","p">> \o B,
    B \o <<"p","a","i","d">> \o S \o <<"m","e">> \o B,
    B \o <<"s","e","n","t">> \o S \o <<"m","e">> \o B,
    B \o W_transfer \o B, B \o W_transfer \o <<"r","e","d">> \o B,
    <<"r","e","i","m","b","u","r","s","e","d">>,
    B \o <<"t","o">> \o S \o <<"m","e">> \o B,
    B \o <<"t","o">> \o S \o <<"y","o","u">> \o B }

QueryPatterns ==
  { B \o <<"b","a","l","a","n","c","e">>, <<"o","w","e">>, <<"o","w","e","d">>,
    W_settled \o B,
    B \o W_total, W_total \o <<"s">>, <<"s","u","m","m","a","r","y">>,
    <<"b","r","e","a","k","d","o","w","n">> \o B,
    B \o <<"b","y">> \o S \o W_category,
    <<"b","y">> \o S \o <<"c","a","t","e","g","o","r","i","e","s">>,
    <<"p","e","r">> \o S \o W_category \o B,
    B \o W_category \o S \o W_total \o B,
    B \o W_category \o S \o W_total \o <<"s">> \o B,
    B \o <<"s","p","e","n","d">>, <<"s","p","e","n","t">>,
    <<"e","x","p","e","n","s","e","s">>, <<"e","x","p","a","n","s","e","s">> \o B,
    B \o <<"r","e","c","e","n","t">>, <<"l","a","s","t">> \o S \o <<"f","e","w">>,
    <<"l","a","t","e","s","t">> \o B }

\* The text functions are evaluated once for each sample text.
LooksLikeSettlement == [t \in Texts |-> re_any(SettlementPatterns, lower(Chars(t)))]
LooksLikeQuery == [t \in Texts |-> re_any(QueryPatterns, lower(Chars(t)))]
HasDigit == [t \in Texts |-> re_search(<<"\\d">>, Chars(t))]

_looks_like_settlement(text) == LooksLikeSettlement[text]

_looks_like_query(text) == LooksLikeQuery[text]

\* re.search(r"\d", text)
has_digit(text) == HasDigit[text]

\* The numbers of the text, in order: each maximal run of digits that
\* starts and ends at a word boundary.
RECURSIVE RunEnd(_, _)
RunEnd(s, i) == IF i < Len(s) /\ IsDigit(s[i + 1]) THEN RunEnd(s, i + 1) ELSE i

RECURSIVE ScanAmounts(_, _)
ScanAmounts(s, i) ==
  IF i > Len(s) THEN <<>>
  ELSE IF IsDigit(s[i]) /\ Boundary(s, i) /\ Boundary(s, RunEnd(s, i) + 1)
    THEN <<DigitsValue(SubSeq(s, i, RunEnd(s, i)))>> \o ScanAmounts(s, RunEnd(s, i) + 1)
  ELSE ScanAmounts(s, i + 1)

NumericAmounts == [t \in Texts |-> ScanAmounts(Chars(t), 1)]

_extract_numeric_amounts(text) == NumericAmounts[text]

SeqMax(q) == CHOOSE m \in {q[i] : i \in DOMAIN q} : \A i \in DOMAIN q : q[i] <= m

_maybe_fix_amount(parsed_amount, candidates, single_expense) ==
  IF candidates = <<>> \/ ~single_expense THEN parsed_amount
  ELSE IF parsed_amount = NoneNum
    THEN (IF Len(candidates) = 1 THEN candidates[1] ELSE parsed_amount)
  ELSE IF Len(candidates) = 1
    THEN LET candidate == candidates[1] IN
         IF candidate >= 1000 /\ 2 * parsed_amount < candidate THEN candidate
         ELSE IF candidate < 1000 /\ parsed_amount > 0 /\ candidate >= 5 * parsed_amount
           THEN candidate
         ELSE parsed_amount
  ELSE LET largest == SeqMax(candidates) IN
       IF largest >= 1000 /\ 2 * parsed_amount < largest THEN largest
       ELSE parsed_amount

\* ------------------------------------------------------------------------
\* _parse_split
\* ------------------------------------------------------------------------
SlashPositions(s) == {i \in 1..Len(s) : s[i] = "/"}

RECURSIVE rstrip_pct(_)
rstrip_pct(s) ==
  IF s # <<>> /\ s[Len(s)] = "%" THEN rstrip_pct(SubSeq(s, 1, Len(s) - 1)) ELSE s

NoSplit == <<NoneNum, NoneNum>>

PercentSplit(s) ==
  LET pct == float(rstrip_pct(s)) IN
  IF s # <<>> /\ pct.ok /\ 0 <= pct.val /\ pct.val <= 100
    THEN <<pct.val, 100 - pct.val>>
  ELSE NoSplit

ParseSplit(chars) ==
  LET s == remove_spaces(chars)
      cut == SlashPositions(s)
  IN
  IF Cardinality(cut) = 1
    THEN LET p == CHOOSE i \in cut : TRUE
             a == float(SubSeq(s, 1, p - 1))
             b == float(SubSeq(s, p + 1, Len(s)))
         IN IF a.ok /\ b.ok /\ a.val + b.val = 100 THEN <<a.val, b.val>>
            ELSE PercentSplit(s)
  ELSE PercentSplit(s)

\* answer.strip().lower() of each sample text, and its split.
AnswerStripped == [t \in Answers |-> lower(strip(Chars(t)))]
SplitOfAnswer == [t \in Answers |-> ParseSplit(AnswerStripped[t])]
AmountOfAnswer ==
  [t \in Answers |-> float(SelectSeq(AnswerStripped[t], LAMBDA c : c # ","))]
CategoryOfAnswer ==
  [t \in Answers |-> IF AnswerStripped[t] = <<>> THEN None ELSE Str(AnswerStripped[t])]

\* _parse_split of the stripped, lowered answer.
_parse_split(answer) == SplitOfAnswer[answer]

\* ------------------------------------------------------------------------
\* PendingExpense and ConversationContext (agent/state.py).  Of a pending
\* expense the model keeps the required fields; of a context it keeps the
\* fields the orchestrator reads.
\* ------------------------------------------------------------------------
REQUIRED_EXPENSE_FIELDS ==
  <<"amount", "category", "payer", "split_payer_pct", "split_other_pct">>

PendingExpense(amount, category, payer, split_payer_pct, split_other_pct) ==
  [amount |-> amount, category |-> category, payer |-> payer,
   split_payer_pct |-> split_payer_pct, split_other_pct |-> split_other_pct]

\* getattr(exp, field_name) is None
FieldIsNone(exp, field_name) ==
  CASE field_name = "amount" -> exp.amount = NoneNum
    [] field_name = "category" -> exp.category = None
    [] field_name = "payer" -> exp.payer = None
    [] field_name = "split_payer_pct" -> exp.split_payer_pct = NoneNum
    [] field_name = "split_other_pct" -> exp.split_other_pct = NoneNum
    [] OTHER -> FALSE

missing_fields(exp) ==
  SelectSeq(REQUIRED_EXPENSE_FIELDS, LAMBDA f : FieldIsNone(exp, f))

is_complete(exp) == Len(missing_fields(exp)) = 0

\* from_parsed: the keys of the parsed dict that are fields of the model,
\* an absent key left at its default None.
from_parsed(data) ==
  PendingExpense(data.amount, data.category, data.payer,
                 data.split_payer_pct, data.split_other_pct)

ConversationContext(state, raw_input_id, pending_expenses, clarification_field, is_settlement) ==
  [state |-> state, raw_input_id |-> raw_input_id,
   pending_expenses |-> pending_expenses,
   clarification_field |-> clarification_field, is_settlement |-> is_settlement]

DefaultContext == ConversationContext("idle", NoneNum, <<>>, None, FALSE)

all_complete(ctx) ==
  \A i \in DOMAIN ctx.pending_expenses : is_complete(ctx.pending_expenses[i])

IncompleteIndexes(ctx) ==
  {i \in DOMAIN ctx.pending_expenses : ~is_complete(ctx.pending_expenses[i])}

first_missing_of_last(ctx) ==
  LET i == CHOOSE j \in IncompleteIndexes(ctx) :
             \A k \in IncompleteIndexes(ctx) : j >= k
  IN <<i, missing_fields(ctx.pending_expenses[i])[1]>>

\* (expense_index, field_name) of the first missing field; indexes from 1.
first_missing(ctx) ==
  LET i == CHOOSE j \in IncompleteIndexes(ctx) :
             \A k \in IncompleteIndexes(ctx) : j <= k
  IN <<i, missing_fields(ctx.pending_expenses[i])[1]>>

\* ------------------------------------------------------------------------
\* ConversationStore: a dict from user id to context.
\* ------------------------------------------------------------------------
store_has(st, user_id) == user_id \in DOMAIN st

store_set(st, user_id, ctx) ==
  [u \in DOMAIN st \cup {user_id} |-> IF u = user_id THEN ctx ELSE st[u]]

\* clear that leaves an IDLE context in place of the user's.
store_clear_to_idle(st, user_id) ==
  [u \in DOMAIN st \cup {user_id} |-> IF u = user_id THEN DefaultContext ELSE st[u]]

store_clear(st, user_id) == [u \in DOMAIN st \ {user_id} |-> st[u]]

\* The store after get(user_id): an absent user gets a fresh context.
store_get(st, user_id) ==
  IF user_id \in DOMAIN st THEN st ELSE store_set(st, user_id, DefaultContext)

\* ------------------------------------------------------------------------
\* Helpers of the orchestrator on pending expenses
\* ------------------------------------------------------------------------
_apply_default_split(ctx) ==
  [ctx EXCEPT !.pending_expenses =
     [i \in DOMAIN ctx.pending_expenses |->
        LET exp == ctx.pending_expenses[i] IN
        IF exp.split_payer_pct = NoneNum /\ exp.split_other_pct = NoneNum
          THEN [exp EXCEPT !.split_payer_pct = 50, !.split_other_pct = 50]
        ELSE exp]]

\* _default_missing_payers_to_user that defaults nothing.
_default_missing_payers_kept(expenses) == expenses

_default_missing_payers_to_user(expenses) ==
  [i \in DOMAIN expenses |->
     IF expenses[i].payer = None THEN [expenses[i] EXCEPT !.payer = "user"]
     ELSE expenses[i]]

MeAnswers == {<<"m","e">>, <<"i">>, <<"i"," ","d","i","d">>,
              <<"i"," ","p","a","i","d">>, <<"u","s","e","r">>}
PartnerAnswers == {<<"p","a","r","t","n","e","r">>, <<"t","h","e","y">>,
                   <<"t","h","e","y"," ","d","i","d">>, <<"t","h","e","m">>}

PayerOfAnswer ==
  [t \in Answers |->
     IF AnswerStripped[t] \in MeAnswers THEN "user"
     ELSE IF AnswerStripped[t] \in PartnerAnswers THEN "partner"
     ELSE "user"]

\* The body of the loop of _merge_field_manually for one expense.
MergeOne(exp, field_name, answer) ==
  IF ~FieldIsNone(exp, field_name) THEN exp
  ELSE
    CASE field_name = "payer" -> [exp EXCEPT !.payer = PayerOfAnswer[answer]]
      [] field_name \in {"split_payer_pct", "split_other_pct"} ->
           LET sp == _parse_split(answer) IN
           IF sp[1] # NoneNum
             THEN [exp EXCEPT !.split_payer_pct = sp[1], !.split_other_pct = sp[2]]
           ELSE exp
      [] field_name = "category" -> [exp EXCEPT !.category = CategoryOfAnswer[answer]]
      [] field_name = "amount" ->
           IF AmountOfAnswer[answer].ok
             THEN [exp EXCEPT !.amount = AmountOfAnswer[answer].val]
           ELSE exp
      [] OTHER -> exp

\* _merge_field_manually that stops after the first expense it fills.
_merge_field_manually_first_only(expenses, field_name, answer) ==
  LET missing == {i \in DOMAIN expenses : FieldIsNone(expenses[i], field_name)} IN
  [i \in DOMAIN expenses |->
     IF i \in missing /\ \A j \in missing : i <= j
       THEN MergeOne(expenses[i], field_name, answer)
     ELSE expenses[i]]

\* _merge_field_manually that fills nothing.
_merge_field_manually_nothing(expenses, field_name, answer) == expenses

_merge_field_manually(expenses, field_name, answer) ==
  [i \in DOMAIN expenses |-> MergeOne(expenses[i], field_name, answer)]

\* ------------------------------------------------------------------------
\* LLM responses.  raises is "none" when chat() returns and the exception
\* (one of Exceptions) when it raises.  content is "" or the text of the
\* reply.  The arguments
\* of a tool call are a dict (a record; <<>> is the empty dict).
\* ------------------------------------------------------------------------
ToolCall(name, arguments) == [name |-> name, arguments |-> arguments]

LLMResponse(raises, content, tool_calls) ==
  [raises |-> raises, content |-> content, tool_calls |-> tool_calls]

HasKey(d, k) == k \in DOMAIN d

\* d.get("expenses") or []
GetExpenses(d) == IF HasKey(d, "expenses") THEN d.expenses ELSE <<>>

\* d.get("intent", "unknown")
GetIntent(d) == IF HasKey(d, "intent") THEN d.intent ELSE "unknown"

CallsNamed(response, name) ==
  {i \in DOMAIN response.tool_calls : response.tool_calls[i].name = name}

FirstCallNamed(response, name) ==
  response.tool_calls[CHOOSE i \in CallsNamed(response, name) :
                        \A j \in CallsNamed(response, name) : i <= j]

\* _extract_parsed: <<>> stands for None, <<d>> for the dict d.
_extract_parsed(response) ==
  IF response.tool_calls = <<>> THEN <<>>
  ELSE IF CallsNamed(response, "parse_expense") # {}
    THEN <<FirstCallNamed(response, "parse_expense").arguments>>
  ELSE <<response.tool_calls[1].arguments>>

SettlementFromExpense(exp) == [amount |-> exp.amount, payer |-> exp.payer]

\* _extract_settlement: <<>> stands for None.
_extract_settlement(response) ==
  IF response.tool_calls = <<>> THEN <<>>
  ELSE IF CallsNamed(response, "log_settlement") # {}
    THEN <<FirstCallNamed(response, "log_settlement").arguments>>
  ELSE
    LET hits == {i \in CallsNamed(response, "parse_expense") :
                   /\ GetIntent(response.tool_calls[i].arguments) = "settlement"
                   /\ HasKey(response.tool_calls[i].arguments, "intent")
                   /\ GetExpenses(response.tool_calls[i].arguments) # <<>>}
    IN IF hits = {} THEN <<>>
       ELSE LET i == CHOOSE h \in hits : \A j \in hits : h <= j IN
            <<SettlementFromExpense(response.tool_calls[i].arguments.expenses[1])>>

\* settlement_data.get("amount"), settlement_data.get("payer")
GetAmount(d) == IF HasKey(d, "amount") THEN d.amount ELSE NoneNum
GetPayer(d) == IF HasKey(d, "payer") THEN d.payer ELSE None

\* _postprocess_parsed_expenses: the amount correction of each expense.
_postprocess_parsed_expenses(text, expenses) ==
  LET candidates == _extract_numeric_amounts(text)
      single == Len(expenses) = 1
  IN [i \in DOMAIN expenses |->
        LET fixed_amount == _maybe_fix_amount(expenses[i].amount, candidates, single) IN
        IF fixed_amount # NoneNum /\ fixed_amount # expenses[i].amount
          THEN [expenses[i] EXCEPT !.amount = fixed_amount]
        ELSE expenses[i]]

\* _postprocess_settlement: the corrected amount of the settlement data.
_postprocess_settlement(text, settlement_data) ==
  LET amount_val == GetAmount(settlement_data)
      fixed_amount == _maybe_fix_amount(amount_val, _extract_numeric_amounts(text), TRUE)
  IN IF fixed_amount # NoneNum /\ fixed_amount # amount_val THEN fixed_amount
     ELSE amount_val

\* ------------------------------------------------------------------------
\* The ledger and the tools that reach it
\* ------------------------------------------------------------------------
LedgerEntry(raw_input_id, event_type, amount, category, payer_telegram_id, split_payer_pct, split_other_pct) ==
  [raw_input_id |-> raw_input_id, event_type |-> event_type, amount |-> amount,
   category |-> category, payer_telegram_id |-> payer_telegram_id,
   split_payer_pct |-> split_payer_pct, split_other_pct |-> split_other_pct]

\* save_ledger_entry adds the entry to the ledger; led is the sequence of
\* entries the running handler has written so far.
save_ledger_entry(led, entry) == Append(led, entry)

\* get_partner_id for the partnership of the user with the other party.
get_partner_id(user_id) == 3 - user_id

RegisteredTools ==
  {"parse_expense", "log_settlement", "validate_settlement", "get_balance",
   "query_expenses", "get_recent_entries", "list_categories", "create_category"}

\* The blocking rules of validate_settlement that log_settlement applies.
SettlementHardErrors(amount, payer_id, user_a_id, user_b_id) ==
  amount <= 0 \/ payer_id \notin {user_a_id, user_b_id} \/ user_a_id = user_b_id

\* env.partnership: the user has a partnership; env.fail = n: the n-th
\* storage write of this handler raises (0: none does).
Envs == [partnership : BOOLEAN, fail : 0..MaxExpenses]

\* The storage a handler runs against: env and the number of raw_inputs
\* rows, whose ids are 1..raw_inputs.
Storage(env, n) ==
  [partnership |-> env.partnership, fail |-> env.fail, raw_inputs |-> n]

ToolResult(kind, led) == [kind |-> kind, ledger |-> led]

\* The log_settlement tool, called with the keyword arguments args.
log_settlement(args, led, user_id, env) ==
  IF ~HasKey(args, "amount") \/ ~HasKey(args, "payer") THEN ToolResult("raised", led)
  ELSE IF ~HasKey(args, "session") \/ ~HasKey(args, "user_id")
          \/ ~HasKey(args, "raw_input_id")
    THEN ToolResult("error", led)
  ELSE IF ~env.partnership THEN ToolResult("error", led)
  ELSE
    LET partner_id == get_partner_id(user_id)
        payer_id == IF args.payer = "user" THEN user_id ELSE partner_id
    IN IF SettlementHardErrors(args.amount, payer_id, user_id, partner_id)
         THEN ToolResult("error", led)
       ELSE IF env.fail = 1 THEN ToolResult("raised", led)
       \* ledger.raw_input_id is a foreign key to raw_inputs.id: the flush
       \* of an entry that names no stored raw input raises.
       ELSE IF args.raw_input_id \notin 1..env.raw_inputs THEN ToolResult("raised", led)
       ELSE ToolResult("ok",
              save_ledger_entry(led,
                LedgerEntry(args.raw_input_id, "settlement", args.amount, None,
                            payer_id, 100, 0)))

\* The get_balance tool: reads the ledger, writes nothing.
get_balance_tool(args, led, user_id, env) ==
  IF ~HasKey(args, "session") \/ ~HasKey(args, "user_id") THEN ToolResult("error", led)
  ELSE IF ~env.partnership THEN ToolResult("error", led)
  ELSE IF env.fail = 1 THEN ToolResult("raised", led)
  ELSE ToolResult("ok", led)

\* execute_tool: an unregistered name raises KeyError; parse_expense takes
\* no session and no user_id keyword and raises TypeError when given them.
execute_tool(name, args, led, user_id, env) ==
  IF name \notin RegisteredTools THEN ToolResult("raised", led)
  ELSE
    CASE name = "log_settlement" -> log_settlement(args, led, user_id, env)
      [] name = "get_balance" -> get_balance_tool(args, led, user_id, env)
      [] name = "parse_expense" ->
           IF HasKey(args, "session") \/ HasKey(args, "user_id")
             THEN ToolResult("raised", led)
           ELSE ToolResult("ok", led)
      [] OTHER -> ToolResult("ok", led)

\* tool_args = dict(tc.arguments) with session and user_id injected.
InjectContext(arguments, user_id) ==
  [k \in DOMAIN arguments \cup {"session", "user_id"} |->
     IF k = "session" THEN "session"
     ELSE IF k = "user_id" THEN user_id
     ELSE arguments[k]]

\* ------------------------------------------------------------------------
\* The orchestrator.  Each handler is an operator from the store, the
\* ledger entries written so far and its inputs to a Result: the store it
\* leaves, the entries written, the
\* reply it returns (reply names the text, keyboard tells whether the
\* confirmation keyboard is attached, count is the number of committed
\* lines of a commit reply) or raised = TRUE when an exception leaves it.
\* ------------------------------------------------------------------------
Result(st, led, reply, keyboard, count) ==
  [store |-> st, ledger |-> led, reply |-> reply, keyboard |-> keyboard,
   count |-> count, raised |-> FALSE]

Raised(st, led) ==
  [store |-> st, ledger |-> led, reply |-> "none", keyboard |-> FALSE,
   count |-> 0, raised |-> TRUE]

\* The replies whose text contains the word "trouble".
\*   trouble_message:    "I'm having trouble processing your message ..."
\*   trouble_query:      "I had trouble processing your query. ..."
\*   trouble_settlement: "I had trouble processing your settlement. ..."
\*   trouble_answer:     "I had trouble processing your answer. ..."
TroubleReplies ==
  {"trouble_message", "trouble_query", "trouble_settlement", "trouble_answer"}

\* _return_auth_error without the store.clear.
_return_auth_error_keeps_session(st, led, user_id) ==
  Result(st, led, "llm_auth_reply", FALSE, 0)

_return_auth_error(st, led, user_id) ==
  Result(store_clear(st, user_id), led, "llm_auth_reply", FALSE, 0)

\* _validate without the move to CLARIFYING when a field is missing.
_validate_keeps_state(st, led, user_id, ctx, assume_half_split) ==
  LET c == IF assume_half_split THEN _apply_default_split(ctx) ELSE ctx IN
  IF all_complete(c)
    THEN Result(store_set(st, user_id, [c EXCEPT !.state = "confirming"]),
                led, "confirmation_summary", TRUE, 0)
  ELSE Result(store_set(st, user_id,
                [c EXCEPT !.clarification_field = first_missing(c)[2]]),
              led, "clarification_question", FALSE, 0)

\* _validate that sends the confirmation summary without its keyboard.
_validate_without_keyboard(st, led, user_id, ctx, assume_half_split) ==
  LET c == IF assume_half_split THEN _apply_default_split(ctx) ELSE ctx IN
  IF all_complete(c)
    THEN Result(store_set(st, user_id, [c EXCEPT !.state = "confirming"]),
                led, "confirmation_summary", FALSE, 0)
  ELSE Result(store_set(st, user_id,
                [c EXCEPT !.state = "clarifying",
                          !.clarification_field = first_missing(c)[2]]),
              led, "clarification_question", FALSE, 0)

_validate(st, led, user_id, ctx, assume_half_split) ==
  LET c == IF assume_half_split THEN _apply_default_split(ctx) ELSE ctx IN
  IF all_complete(c)
    THEN Result(store_set(st, user_id, [c EXCEPT !.state = "confirming"]),
                led, "confirmation_summary", TRUE, 0)
  ELSE Result(store_set(st, user_id,
                [c EXCEPT !.state = "clarifying",
                          !.clarification_field = first_missing(c)[2]]),
              led, "clarification_question", FALSE, 0)

_handle_non_expense_intent(st, led, intent, response) ==
  Result(st, led,
         IF response.content # "" THEN "llm_content"
         ELSE IF intent = "greeting" THEN "hello" ELSE "did_not_understand",
         FALSE, 0)

\* _handle_query without the try/except around execute_tool.
_handle_query_uncaught(st, led, user_id, text, response, env) ==
  IF response.raises # "none" THEN Result(st, led, "trouble_query", FALSE, 0)
  ELSE IF response.tool_calls # <<>>
    THEN LET tc == response.tool_calls[1]
             res == execute_tool(tc.name, InjectContext(tc.arguments, user_id),
                                 led, user_id, env)
         IN IF res.kind = "raised" THEN Raised(st, res.ledger)
            ELSE IF res.kind = "error" THEN Result(st, res.ledger, "tool_error", FALSE, 0)
            ELSE Result(st, res.ledger, "query_result", FALSE, 0)
  ELSE Result(st, led,
              IF response.content # "" THEN "llm_content" ELSE "could_not_find",
              FALSE, 0)

_handle_query(st, led, user_id, text, response, env) ==
  IF response.raises # "none" THEN Result(st, led, "trouble_query", FALSE, 0)
  ELSE IF response.tool_calls # <<>>
    THEN LET tc == response.tool_calls[1]
             res == execute_tool(tc.name, InjectContext(tc.arguments, user_id),
                                 led, user_id, env)
         IN IF res.kind = "raised" THEN Result(st, res.ledger, "tool_failed", FALSE, 0)
            ELSE IF res.kind = "error" THEN Result(st, res.ledger, "tool_error", FALSE, 0)
            ELSE Result(st, res.ledger, "query_result", FALSE, 0)
  ELSE Result(st, led,
              IF response.content # "" THEN "llm_content" ELSE "could_not_find",
              FALSE, 0)

\* _handle_settlement that keeps the session when it asks how much.
_handle_settlement_keeps_session(st, led, user_id, text, ctx, response) ==
  IF response.raises # "none"
    THEN Result(store_clear(st, user_id), led, "trouble_settlement", FALSE, 0)
  ELSE
    LET found == _extract_settlement(response) IN
    IF found = <<>>
      THEN Result(store_clear(st, user_id), led, "could_not_parse_settlement", FALSE, 0)
    ELSE
      LET settlement_data == found[1]
          amount == _postprocess_settlement(text, settlement_data)
          payer == GetPayer(settlement_data)
          pending == PendingExpense(amount, None, payer, 100, 0)
          c == [ctx EXCEPT !.pending_expenses = <<pending>>, !.is_settlement = TRUE]
      IN
      IF amount = NoneNum
        THEN Result(st, led, "how_much", FALSE, 0)
      ELSE IF pending.payer = None \/ pending.payer = ""
        THEN Result(store_set(st, user_id,
                      [c EXCEPT !.state = "clarifying", !.clarification_field = "payer"]),
                    led, "who_made_this_payment", FALSE, 0)
      ELSE Result(store_set(st, user_id, [c EXCEPT !.state = "confirming"]),
                  led, "settlement_confirmation", TRUE, 0)

_handle_settlement(st, led, user_id, text, ctx, response) ==
  IF response.raises # "none"
    THEN Result(store_clear(st, user_id), led, "trouble_settlement", FALSE, 0)
  ELSE
    LET found == _extract_settlement(response) IN
    IF found = <<>>
      THEN Result(store_clear(st, user_id), led, "could_not_parse_settlement", FALSE, 0)
    ELSE
      LET settlement_data == found[1]
          amount == _postprocess_settlement(text, settlement_data)
          payer == GetPayer(settlement_data)
          pending == PendingExpense(amount, None, payer, 100, 0)
          c == [ctx EXCEPT !.pending_expenses = <<pending>>, !.is_settlement = TRUE]
      IN
      IF amount = NoneNum
        THEN Result(store_clear(st, user_id), led, "how_much", FALSE, 0)
      ELSE IF pending.payer = None \/ pending.payer = ""
        THEN Result(store_set(st, user_id,
                      [c EXCEPT !.state = "clarifying", !.clarification_field = "payer"]),
                    led, "who_made_this_payment", FALSE, 0)
      ELSE Result(store_set(st, user_id, [c EXCEPT !.state = "confirming"]),
                  led, "settlement_confirmation", TRUE, 0)

\* The exceptions a chat() call raises, each with its type and its text:
\*   error              RuntimeError("LLM down")
\*   auth               openai.AuthenticationError("bad key")
\*   status_401         RuntimeError("Error code: 401")
\*   invalid_api_key    RuntimeError("invalid_api_key")
\*   incorrect_api_key  RuntimeError("Incorrect API key")
\*   unauthorized       RuntimeError("Unauthorized")
\*   timeout            TimeoutError("timed out")
Exceptions ==
  {"error", "auth", "status_401", "invalid_api_key", "incorrect_api_key",
   "unauthorized", "timeout"}

ExceptionType(exc) ==
  IF exc = "auth" THEN "openai.AuthenticationError"
  ELSE IF exc = "timeout" THEN "TimeoutError"
  ELSE "RuntimeError"

\* str(exc)
ExceptionText(exc) ==
  CASE exc = "error" -> <<"L","L","M"," ","d","o","w","n">>
    [] exc = "auth" -> <<"b","a","d"," ","k","e","y">>
    [] exc = "status_401" -> <<"E","r","r","o","r"," ","c","o","d","e",":"," ","4","0","1">>
    [] exc = "invalid_api_key" -> <<"i","n","v","a","l","i","d","_","a","p","i","_","k","e","y">>
    [] exc = "incorrect_api_key" -> <<"I","n","c","o","r","r","e","c","t"," ","A","P","I"," ","k","e","y">>
    [] exc = "unauthorized" -> <<"U","n","a","u","t","h","o","r","i","z","e","d">>
    [] exc = "timeout" -> <<"t","i","m","e","d"," ","o","u","t">>

\* sub in cs
Contains(cs, sub) ==
  \E i \in 1..(Len(cs) - Len(sub) + 1) : SubSeq(cs, i, i + Len(sub) - 1) = sub

_is_llm_auth_error_never(exc) == FALSE

_is_llm_auth_error(exc) ==
  LET msg == lower(ExceptionText(exc)) IN
  \/ Contains(msg, <<"4","0","1">>)
  \/ Contains(msg, <<"i","n","v","a","l","i","d","_","a","p","i","_","k","e","y">>)
  \/ Contains(msg, <<"i","n","c","o","r","r","e","c","t"," ","a","p","i"," ","k","e","y">>)
  \/ Contains(msg, <<"u","n","a","u","t","h","o","r","i","z","e","d">>)

\* The branch _parse_and_validate takes on the response of the parse call.
ParseBranch(text, response) ==
  IF response.raises # "none"
    THEN IF \/ ExceptionType(response.raises) = "openai.AuthenticationError"
            \/ _is_llm_auth_error(response.raises)
           THEN "auth"
         ELSE "trouble"
  ELSE
    LET found == _extract_parsed(response)
        has_expenses == found # <<>> /\ GetExpenses(found[1]) # <<>>
        intent == IF found = <<>> THEN "unknown" ELSE GetIntent(found[1])
    IN
    IF has_expenses THEN "expenses"
    ELSE IF found = <<>> THEN "nothing"
    ELSE IF intent = "query" \/ (intent \in {"unknown", "greeting"} /\ _looks_like_query(text))
      THEN "query"
    ELSE IF intent = "settlement" THEN "settlement"
    ELSE IF intent \in {"greeting", "unknown"} THEN "non_expense"
    ELSE "nothing"

\* llm is the sequence of responses the client gives to the successive
\* chat() calls of this handler.
_parse_and_validate(st, led, user_id, text, ctx, llm, env, assume_half_split) ==
  IF _looks_like_settlement(text)
    THEN _handle_settlement(st, led, user_id, text, ctx, llm[1])
  ELSE IF _looks_like_query(text) /\ ~has_digit(text)
    THEN _handle_query(st, led, user_id, text, llm[1], env)
  ELSE
    LET response == llm[1]
        branch == ParseBranch(text, response)
    IN
    CASE branch = "auth" -> _return_auth_error(st, led, user_id)
      [] branch = "trouble" ->
           Result(store_clear(st, user_id), led, "trouble_message", FALSE, 0)
      [] branch = "query" ->
           _handle_query(store_clear(st, user_id), led, user_id, text, llm[2], env)
      [] branch = "settlement" ->
           _handle_settlement(st, led, user_id, text, ctx, llm[2])
      [] branch = "non_expense" ->
           _handle_non_expense_intent(store_clear(st, user_id), led,
                                      GetIntent(_extract_parsed(response)[1]), response)
      [] branch = "nothing" ->
           Result(store_clear(st, user_id), led,
                  IF response.content # "" THEN "llm_content" ELSE "could_not_parse",
                  FALSE, 0)
      [] OTHER ->
           LET parsed == _postprocess_parsed_expenses(
                           text, GetExpenses(_extract_parsed(response)[1]))
               pending == _default_missing_payers_to_user(
                            [i \in DOMAIN parsed |-> from_parsed(parsed[i])])
               c == [ctx EXCEPT !.pending_expenses = pending, !.state = "validating"]
           IN _validate(store_set(st, user_id, c), led, user_id, c, assume_half_split)

\* _handle_clarification_answer without the count check: the LLM's list
\* replaces the pending list whenever it is not empty.
_handle_clarification_answer_any_count(st, led, user_id, answer, ctx, response, assume_half_split) ==
  LET field_name == IF ctx.clarification_field = None THEN "unknown"
                    ELSE ctx.clarification_field
  IN
  IF response.raises # "none" THEN Result(st, led, "trouble_answer", FALSE, 0)
  ELSE
    LET found == _extract_parsed(response)
        new_expenses == IF found = <<>> THEN <<>>
                        ELSE [i \in DOMAIN GetExpenses(found[1]) |->
                                from_parsed(GetExpenses(found[1])[i])]
        merged == IF new_expenses # <<>> THEN new_expenses
                  ELSE _merge_field_manually(ctx.pending_expenses, field_name, answer)
        c == [ctx EXCEPT !.pending_expenses = merged, !.state = "validating",
                         !.clarification_field = None]
    IN _validate(store_set(st, user_id, c), led, user_id, c, assume_half_split)

_handle_clarification_answer(st, led, user_id, answer, ctx, response, assume_half_split) ==
  LET field_name == IF ctx.clarification_field = None THEN "unknown"
                    ELSE ctx.clarification_field
  IN
  IF response.raises # "none" THEN Result(st, led, "trouble_answer", FALSE, 0)
  ELSE
    LET found == _extract_parsed(response)
        new_expenses == IF found = <<>> THEN <<>>
                        ELSE [i \in DOMAIN GetExpenses(found[1]) |->
                                from_parsed(GetExpenses(found[1])[i])]
        merged == IF new_expenses # <<>> /\ Len(new_expenses) = Len(ctx.pending_expenses)
                    THEN new_expenses
                  ELSE _merge_field_manually(ctx.pending_expenses, field_name, answer)
        c == [ctx EXCEPT !.pending_expenses = merged, !.state = "validating",
                         !.clarification_field = None]
    IN _validate(store_set(st, user_id, c), led, user_id, c, assume_half_split)

\* handle_message without the CLARIFYING route: every text starts a round.
handle_message_always_fresh(st, led, user_id, text, raw_input_id, llm, env, assume_half_split) ==
  LET fresh == ConversationContext("parsing", raw_input_id, <<>>, None, FALSE) IN
  _parse_and_validate(store_set(store_get(st, user_id), user_id, fresh), led,
                      user_id, text, fresh, llm, env, assume_half_split)

handle_message(st, led, user_id, text, raw_input_id, llm, env, assume_half_split) ==
  LET st0 == store_get(st, user_id)
      ctx == st0[user_id]
  IN
  IF ctx.state = "clarifying"
    THEN _handle_clarification_answer(st0, led, user_id, text, ctx, llm[1],
                                      assume_half_split)
  ELSE
    LET fresh == ConversationContext("parsing", raw_input_id, <<>>, None, FALSE) IN
    _parse_and_validate(store_set(st0, user_id, fresh), led, user_id, text, fresh,
                        llm, env, assume_half_split)

\* _resolve_payer_id: "user" is the sender; anything else is the partner of
\* the sender's partnership, or 0 when there is none.
_resolve_payer_id(payer, sender_user_id, env) ==
  IF payer = "user" THEN sender_user_id
  ELSE IF env.partnership THEN get_partner_id(sender_user_id)
  ELSE 0

\* The skip rule of _commit without the exemption of settlements.
Committable_complete_only(ctx) ==
  SelectSeq(ctx.pending_expenses,
            LAMBDA exp : exp.amount # NoneNum /\ is_complete(exp))

\* The expenses _commit does not skip.
Committable(ctx) ==
  SelectSeq(ctx.pending_expenses,
            LAMBDA exp : exp.amount # NoneNum /\ (ctx.is_settlement \/ is_complete(exp)))

\* The ledger entry _commit builds of a pending expense.
CommitEntry(ctx, exp, user_id, env) ==
  LedgerEntry(ctx.raw_input_id,
              IF ctx.is_settlement THEN "settlement" ELSE "expense",
              exp.amount, exp.category,
              _resolve_payer_id(IF exp.payer = None \/ exp.payer = "" THEN "user"
                                ELSE exp.payer, user_id, env),
              IF exp.split_payer_pct = NoneNum \/ exp.split_payer_pct = 0 THEN 100
              ELSE exp.split_payer_pct,
              IF exp.split_other_pct = NoneNum THEN 0 ELSE exp.split_other_pct)

RECURSIVE WriteAll(_, _, _, _, _)
WriteAll(led, ctx, exps, user_id, env) ==
  IF exps = <<>> THEN led
  ELSE WriteAll(save_ledger_entry(led, CommitEntry(ctx, Head(exps), user_id, env)),
                ctx, Tail(exps), user_id, env)

\* _commit that drops the session when a write raises.
_commit_clears_on_failure(st, led, user_id, ctx, env) ==
  IF ctx.raw_input_id = NoneNum
    THEN Result(store_clear(st, user_id), led, "no_input_reference", FALSE, 0)
  ELSE
    LET todo == Committable(ctx) IN
    IF env.fail # 0 /\ env.fail <= Len(todo)
      THEN Raised(store_clear(st, user_id),
                  WriteAll(led, ctx, SubSeq(todo, 1, env.fail - 1), user_id, env))
    ELSE Result(store_clear(st, user_id),
                WriteAll(led, ctx, todo, user_id, env),
                IF ctx.is_settlement THEN "settlement_recorded" ELSE "committed",
                FALSE, Len(todo))

_commit(st, led, user_id, ctx, env) ==
  IF ctx.raw_input_id = NoneNum
    THEN Result(store_clear(st, user_id), led, "no_input_reference", FALSE, 0)
  ELSE
    LET todo == Committable(ctx) IN
    IF env.fail # 0 /\ env.fail <= Len(todo)
      THEN Raised(st, WriteAll(led, ctx, SubSeq(todo, 1, env.fail - 1), user_id, env))
    ELSE Result(store_clear(st, user_id),
                WriteAll(led, ctx, todo, user_id, env),
                IF ctx.is_settlement THEN "settlement_recorded" ELSE "committed",
                FALSE, Len(todo))

\* _start_edit that starts over with no pending expenses.
_start_edit_drops_pending(st, led, user_id, ctx) ==
  Result(store_set(st, user_id,
           [ctx EXCEPT !.state = "clarifying", !.clarification_field = None,
                       !.pending_expenses = <<>>]),
         led, "what_to_change", FALSE, 0)

_start_edit(st, led, user_id, ctx) ==
  Result(store_set(st, user_id,
           [ctx EXCEPT !.state = "clarifying", !.clarification_field = None]),
         led, "what_to_change", FALSE, 0)

\* _cancel without the store.clear.
_cancel_keeps_session(st, led, user_id) ==
  Result(store_get(st, user_id), led, "cancelled", FALSE, 0)

\* _cancel that empties the whole store.
_cancel_clears_all(st, led, user_id) ==
  Result(<<>>, led, "cancelled", FALSE, 0)

_cancel(st, led, user_id) ==
  Result(store_clear(store_get(st, user_id), user_id), led, "cancelled", FALSE, 0)

\* callback_data.split(":")[0] of "<action>:<payload>"
CallbackAction(callback_data) == callback_data[1]

\* handle_callback without the CONFIRMING guard.
handle_callback_unguarded(st, led, user_id, callback_data, env) ==
  LET st0 == store_get(st, user_id)
      ctx == st0[user_id]
      action == CallbackAction(callback_data)
  IN
  IF action = "confirm" THEN _commit(st0, led, user_id, ctx, env)
  ELSE IF action = "edit" THEN _start_edit(st0, led, user_id, ctx)
  ELSE IF action = "cancel" THEN _cancel(st0, led, user_id)
  ELSE Result(st0, led, "unknown_action", FALSE, 0)

handle_callback(st, led, user_id, callback_data, env) ==
  LET st0 == store_get(st, user_id)
      ctx == st0[user_id]
      action == CallbackAction(callback_data)
  IN
  IF ctx.state # "confirming" THEN Result(st0, led, "no_pending", FALSE, 0)
  ELSE IF action = "confirm" THEN _commit(st0, led, user_id, ctx, env)
  ELSE IF action = "edit" THEN _start_edit(st0, led, user_id, ctx)
  ELSE IF action = "cancel" THEN _cancel(st0, led, user_id)
  ELSE Result(st0, led, "unknown_action", FALSE, 0)

\* ------------------------------------------------------------------------
\* Inputs
\* ------------------------------------------------------------------------
ExpenseDicts ==
  { PendingExpense(300, "groceries", "user", 50, 50),
    PendingExpense(300, "groceries", "partner", 0, 100),
    PendingExpense(300, "groceries", None, NoneNum, NoneNum),
    PendingExpense(30, None, "user", 50, 50),
    PendingExpense(NoneNum, "groceries", "user", 100, 0),
    PendingExpense(300, "groceries", "user", 60, 60) }

\* The expenses of a batch of two or more.
BatchDicts ==
  { PendingExpense(300, "groceries", "user", 50, 50),
    PendingExpense(300, "groceries", None, NoneNum, NoneNum) }

ExpenseLists ==
  [1..1 -> ExpenseDicts] \cup UNION {[1..n -> BatchDicts] : n \in 2..MaxExpenses}

Intents == {"expense", "settlement", "query", "greeting", "unknown"}

Raises(kind) == LLMResponse(kind, "", <<>>)

ParseExpenseCall(intent, expenses) ==
  ToolCall("parse_expense", [intent |-> intent, expenses |-> expenses])

\* What the LLM can answer to the expense-parsing prompt.
ParseResponses ==
  {Raises(exc) : exc \in Exceptions}
  \cup {LLMResponse("none", c, <<>>) : c \in {"", "text"}}
  \cup {LLMResponse("none", "", <<ParseExpenseCall("expense", l)>>) : l \in ExpenseLists}
  \cup {LLMResponse("none", "", <<ParseExpenseCall(i, <<>>)>>) : i \in Intents}
  \cup {LLMResponse("none", "text", <<ParseExpenseCall("greeting", <<>>)>>)}
  \cup {LLMResponse("none", "", <<ToolCall("get_balance", <<>>)>>)}

\* What the LLM can answer to the settlement prompt.
SettlementResponses ==
  {Raises("error"), LLMResponse("none", "", <<>>)}
  \cup {LLMResponse("none", "", <<ToolCall("log_settlement", [amount |-> a, payer |-> p])>>) :
          a \in {NoneNum, 300}, p \in {None, "user", "partner"}}
  \cup {LLMResponse("none", "", <<ToolCall("log_settlement", [payer |-> "user"])>>)}
  \cup {LLMResponse("none", "", <<ParseExpenseCall("settlement", <<e>>)>>) :
          e \in {PendingExpense(300, "groceries", "partner", 0, 100)}}
  \cup {LLMResponse("none", "", <<ParseExpenseCall("expense", <<>>)>>)}

\* What the LLM can answer to the query prompt.  The orchestrator passes
\* the argument dict on as it comes; a raw_input_id the LLM puts in it is
\* the id n of a stored raw input or a made-up value (0).
QueryResponses(n) ==
  {Raises("error")}
  \cup {LLMResponse("none", c, <<>>) : c \in {"", "text"}}
  \cup {LLMResponse("none", "", <<ToolCall(name, <<>>)>>) :
          name \in {"get_balance", "no_such_tool"}}
  \cup {LLMResponse("none", "", <<ParseExpenseCall("query", <<>>)>>)}
  \cup {LLMResponse("none", "", <<ToolCall("log_settlement", [amount |-> 300, payer |-> "user"])>>)}
  \cup {LLMResponse("none", "", <<ToolCall("log_settlement",
          [amount |-> 300, payer |-> "partner", raw_input_id |-> r])>>) : r \in {0, n}}

\* What the LLM can answer to the clarification-merge prompt.
MergeResponses ==
  {Raises("error"), LLMResponse("none", "", <<>>)}
  \cup {LLMResponse("none", "", <<ParseExpenseCall("expense", l)>>) :
          l \in ExpenseLists \cup {<<>>}}

CallbackData == {<<a, "">> : a \in {"confirm", "edit", "cancel", "other"}}

\* ------------------------------------------------------------------------
\* State machine
\* ------------------------------------------------------------------------
VARIABLES
  store,              \* ConversationStore._store
  ledger_rows,        \* the ledger: the number of entries of each raw_input_id
  raw_inputs,         \* number of raw inputs saved; the next id is raw_inputs + 1
  assume_half_split,  \* settings.assume_half_split
  last,               \* the last update processed, what it wrote and returned
  call                \* a single call of one function: its arguments and result

vars == <<store, ledger_rows, raw_inputs, assume_half_split, last, call>>

\* The variables of the conversation, which a single call leaves alone.
conversation == <<store, ledger_rows, raw_inputs, assume_half_split, last>>

\* No single call is examined while the conversation runs.
NoCall == [fn |-> "none", done |-> FALSE]

NoUpdate ==
  [op |-> "none", user |-> 0, arg |-> "none", prior |-> "none", branch |-> "none",
   llm_raised |-> FALSE, writes |-> <<>>, reply |-> "none", keyboard |-> FALSE,
   count |-> 0, raised |-> FALSE]

Init ==
  /\ store = <<>>
  /\ ledger_rows = [r \in 1..MaxMessages |-> 0]
  /\ raw_inputs = 0
  /\ assume_half_split \in BOOLEAN
  /\ last = NoUpdate
  /\ call = NoCall

LedgerSize == LET RECURSIVE Sum(_)
                  Sum(r) == IF r < 1 THEN 0 ELSE ledger_rows[r] + Sum(r - 1)
              IN Sum(MaxMessages)

\* The ledger after the entries of writes are added to it.
AddRows(rows, writes) ==
  [r \in DOMAIN rows |->
     rows[r] + Cardinality({i \in DOMAIN writes : writes[i].raw_input_id = r})]

\* The state of the user's session as handle_message and handle_callback
\* see it: "none" when the store holds no context.
SessionState(st, user_id) ==
  IF store_has(st, user_id) THEN st[user_id].state ELSE "none"

\* The route of a message: which sub-flow handles it.
MessageBranch(st, user_id, text, response) ==
  IF SessionState(st, user_id) = "clarifying" THEN "clarification"
  ELSE IF _looks_like_settlement(text) THEN "settlement_keyword"
  ELSE IF _looks_like_query(text) /\ ~has_digit(text) THEN "query_keyword"
  ELSE ParseBranch(text, response)

\* The first chat() call of a message handler.
FirstResponses(st, user_id, text, n) ==
  IF SessionState(st, user_id) = "clarifying" THEN MergeResponses
  ELSE IF _looks_like_settlement(text) THEN SettlementResponses
  ELSE IF _looks_like_query(text) /\ ~has_digit(text) THEN QueryResponses(n)
  ELSE ParseResponses

\* The second chat() call of a message handler, when it makes one.
SecondResponses(branch, n) ==
  IF branch = "query" THEN QueryResponses(n)
  ELSE IF branch = "settlement" THEN SettlementResponses
  ELSE {Raises("error")}

\* Some chat() call the handler made raised.
LlmRaised(branch, llm) ==
  \/ llm[1].raises # "none"
  \/ branch \in {"query", "settlement"} /\ llm[2].raises # "none"

\* The storage outcomes a message handler can meet: only a tool of the
\* query sub-flow that gets as far as the storage meets one.
ReachesStorage(response) ==
  /\ response.raises = "none"
  /\ response.tool_calls # <<>>
  /\ \/ response.tool_calls[1].name = "get_balance"
     \/ /\ response.tool_calls[1].name = "log_settlement"
        /\ HasKey(response.tool_calls[1].arguments, "raw_input_id")

MessageEnvs(branch, llm) ==
  IF \/ branch = "query_keyword" /\ ReachesStorage(llm[1])
     \/ branch = "query" /\ ReachesStorage(llm[2])
    THEN {e \in Envs : e.fail <= 1}
  ELSE {[partnership |-> TRUE, fail |-> 0]}

\* handle_text saves the raw input and runs handle_message to completion
\* (its own store.get before that is the one handle_message repeats).
HandleMessage(user_id, text) ==
  /\ raw_inputs < MaxMessages
  /\ \E r1 \in FirstResponses(store, user_id, text, raw_inputs + 1) :
       LET branch == MessageBranch(store, user_id, text, r1) IN
       \E r2 \in SecondResponses(branch, raw_inputs + 1) :
       \E env \in MessageEnvs(branch, <<r1, r2>>) :
         LET llm == <<r1, r2>> IN
         \E res \in {handle_message(store, <<>>, user_id, text, raw_inputs + 1,
                                   llm, Storage(env, raw_inputs + 1),
                                   assume_half_split)} :
            /\ LedgerSize + Len(res.ledger) <= MaxLedger
            /\ store' = res.store
            /\ ledger_rows' = AddRows(ledger_rows, res.ledger)
            /\ raw_inputs' = raw_inputs + 1
            /\ last' = [op |-> "message", user |-> user_id, arg |-> "text",
                        prior |-> SessionState(store, user_id),
                        branch |-> branch,
                        llm_raised |-> LlmRaised(branch, llm),
                        writes |-> res.ledger,
                        reply |-> res.reply, keyboard |-> res.keyboard,
                        count |-> res.count, raised |-> res.raised]
            /\ UNCHANGED <<assume_half_split, call>>

\* The storage outcomes a callback handler can meet: only a commit calls
\* storage.
CallbackEnvs(st, user_id, callback_data) ==
  IF SessionState(st, user_id) = "confirming" /\ callback_data[1] = "confirm"
    THEN Envs
  ELSE {[partnership |-> TRUE, fail |-> 0]}

\* The callback handler runs handle_callback to completion.
HandleCallback(user_id, callback_data) ==
  \E env \in CallbackEnvs(store, user_id, callback_data) :
    \E res \in {handle_callback(store, <<>>, user_id, callback_data,
                               Storage(env, raw_inputs))} :
    /\ LedgerSize + Len(res.ledger) <= MaxLedger
    /\ store' = res.store
    /\ ledger_rows' = AddRows(ledger_rows, res.ledger)
    /\ last' = [op |-> "callback", user |-> user_id,
                arg |-> CallbackAction(callback_data),
                prior |-> SessionState(store, user_id), branch |-> "none",
                llm_raised |-> FALSE,
                writes |-> res.ledger,
                reply |-> res.reply, keyboard |-> res.keyboard,
                count |-> res.count, raised |-> res.raised]
    /\ UNCHANGED <<raw_inputs, assume_half_split, call>>

Next ==
  \/ \E u \in Users, t \in Texts : HandleMessage(u, t)
  \/ \E u \in Users, d \in CallbackData : HandleCallback(u, d)

Spec == Init /\ [][Next]_vars

\* ------------------------------------------------------------------------
\* Settlement validator.  An item of the result is named by its text:
\*   positive       "Settlement amount must be a positive number."
\*   not_partner    "Payer (..) is not one of the partners (.., ..)."
\*   different      "The two partner IDs must be different."
\*   WARNING:owes_nothing  "WARNING: The payer does not currently owe ..."
\*   WARNING:exceeds       "WARNING: Settlement amount (..) exceeds ..."
\* ------------------------------------------------------------------------
\* _check_overpayment that warns about an exact settlement too.
_check_overpayment_exact(errors, amount, payer_telegram_id, user_a_id, balance) ==
  LET debt == IF payer_telegram_id = user_a_id
                THEN (IF balance < 0 THEN 0 - balance ELSE 0)
              ELSE (IF balance > 0 THEN balance ELSE 0)
  IN IF debt = 0 THEN Append(errors, "WARNING:owes_nothing")
     ELSE IF amount >= debt THEN Append(errors, "WARNING:exceeds")
     ELSE errors

\* _check_overpayment with the sign convention of the balance reversed.
_check_overpayment_reversed(errors, amount, payer_telegram_id, user_a_id, balance) ==
  LET debt == IF payer_telegram_id = user_a_id
                THEN (IF balance > 0 THEN balance ELSE 0)
              ELSE (IF balance < 0 THEN 0 - balance ELSE 0)
  IN IF debt = 0 THEN Append(errors, "WARNING:owes_nothing")
     ELSE IF amount > debt THEN Append(errors, "WARNING:exceeds")
     ELSE errors

\* _check_overpayment: the list errors with what the function appends.
_check_overpayment(errors, amount, payer_telegram_id, user_a_id, balance) ==
  LET debt == IF payer_telegram_id = user_a_id
                THEN (IF balance < 0 THEN 0 - balance ELSE 0)
              ELSE (IF balance > 0 THEN balance ELSE 0)
  IN IF debt = 0 THEN Append(errors, "WARNING:owes_nothing")
     ELSE IF amount > debt THEN Append(errors, "WARNING:exceeds")
     ELSE errors

\* validate_settlement that returns at the first blocking error.
validate_settlement_first_error(amount, payer_telegram_id, user_a_id, user_b_id, current_balance) ==
  IF amount <= 0 THEN <<"positive">>
  ELSE IF payer_telegram_id \notin {user_a_id, user_b_id} THEN <<"not_partner">>
  ELSE IF user_a_id = user_b_id THEN <<"different">>
  ELSE IF current_balance # NoneNum
    THEN _check_overpayment(<<>>, amount, payer_telegram_id, user_a_id, current_balance)
  ELSE <<>>

\* validate_settlement; current_balance is NoneNum for None.
validate_settlement(amount, payer_telegram_id, user_a_id, user_b_id, current_balance) ==
  LET e1 == IF amount <= 0 THEN <<"positive">> ELSE <<>>
      e2 == IF payer_telegram_id \notin {user_a_id, user_b_id}
              THEN Append(e1, "not_partner") ELSE e1
      e3 == IF user_a_id = user_b_id THEN Append(e2, "different") ELSE e2
  IN IF current_balance # NoneNum /\ amount > 0
       THEN _check_overpayment(e3, amount, payer_telegram_id, user_a_id,
                               current_balance)
     ELSE e3

\* ------------------------------------------------------------------------
\* ToolRegistry.  _tools is a dict, which keeps insertion order: a sequence
\* of ToolDef records.  A registration returns the dict it leaves and
\* whether it raised ValueError.
\* ------------------------------------------------------------------------
MaxRegistrations == 4

ToolDef(name, description, parameters_schema, handler) == [name |-> name, description |-> description, parameters_schema |-> parameters_schema, handler |-> handler]

\* name in self._tools
ToolNames(_tools) == {_tools[i].name : i \in 1..Len(_tools)}

\* self._tools[name] = tool_def: a new key goes to the end, a key that is
\* there keeps its place.
dict_set(_tools, tool_def) ==
  IF tool_def.name \in ToolNames(_tools)
    THEN [i \in 1..Len(_tools) |->
            IF _tools[i].name = tool_def.name THEN tool_def ELSE _tools[i]]
  ELSE Append(_tools, tool_def)

\* register that replaces a tool registered under the name.
register_replacing(_tools, name, description, parameters_schema, handler) ==
  [_tools |-> dict_set(_tools, ToolDef(name, description, parameters_schema, handler)),
   raised |-> FALSE]

register(_tools, name, description, parameters_schema, handler) ==
  IF name \in ToolNames(_tools)
    THEN [_tools |-> _tools, raised |-> TRUE]
  ELSE [_tools |-> dict_set(_tools, ToolDef(name, description, parameters_schema, handler)),
        raised |-> FALSE]

\* The decorator registry.tool(...) applied to func.
tool(_tools, name, description, parameters_schema, func) ==
  IF name \in ToolNames(_tools)
    THEN [_tools |-> _tools, raised |-> TRUE]
  ELSE [_tools |-> dict_set(_tools, ToolDef(name, description, parameters_schema, func)),
        raised |-> FALSE]

get_tools_for_llm(_tools) ==
  [i \in 1..Len(_tools) |->
     [type |-> "function",
      function |-> [name |-> _tools[i].name,
                    description |-> _tools[i].description,
                    parameters |-> _tools[i].parameters_schema]]]

\* ------------------------------------------------------------------------
\* Single calls: one function applied to arguments drawn from bounded sets.
\* ------------------------------------------------------------------------
\* The conversation of a single call: no session, an empty ledger.
QuietConversation ==
  /\ store = <<>>
  /\ ledger_rows = [r \in 1..MaxMessages |-> 0]
  /\ raw_inputs = 0
  /\ assume_half_split \in BOOLEAN
  /\ last = NoUpdate

NoResult == Result(<<>>, <<>>, "none", FALSE, 0)

\* The pending expenses a context can hold: every pattern of present and
\* absent fields (an LLM answer may omit any key).
PendingPatterns ==
  { PendingExpense(a, c, p, s[1], s[2]) :
      a \in {NoneNum, 300}, c \in {None, "groceries"}, p \in {None, "user"},
      s \in {<<NoneNum, NoneNum>>, <<50, 50>>, <<NoneNum, 100>>} }

\* _validate is called on the context of a fresh parse (VALIDATING) and on
\* the context of an answered clarification (CLARIFYING, a field asked).
ValidateCalls ==
  { [fn |-> "_validate",
     ctx |-> ConversationContext(s[1], 1, p, s[2], FALSE),
     done |-> FALSE, result |-> NoResult] :
      p \in UNION {[1..n -> PendingPatterns] : n \in 1..MaxExpenses},
      s \in {<<"validating", None>>, <<"clarifying", "category">>} }

CallValidate ==
  /\ call.fn = "_validate" /\ ~call.done
  /\ call' = [call EXCEPT !.done = TRUE,
                          !.result = _validate(<<>>, <<>>, 1, call.ctx,
                                               assume_half_split)]
  /\ UNCHANGED conversation

\* The CLARIFYING contexts a clarification answer can meet: what _validate
\* stored for an incomplete list, what the edit button made of a list that
\* was in CONFIRMING, and a settlement waiting for its payer.
ClarifyingContexts(half_split) ==
  { LET c == _validate(<<>>, <<>>, 1,
                       ConversationContext("validating", 1, l, None, FALSE),
                       half_split).store[1]
    IN IF c.state = "confirming"
         THEN [c EXCEPT !.state = "clarifying", !.clarification_field = None]
       ELSE c : l \in ExpenseLists }
  \cup { ConversationContext("clarifying", 1,
                             <<PendingExpense(300, None, None, 100, 0)>>,
                             "payer", TRUE) }

ClarificationCalls(half_split) ==
  { [fn |-> "_handle_clarification_answer", ctx |-> c, answer |-> t,
     response |-> r, done |-> FALSE, result |-> NoResult] :
      c \in ClarifyingContexts(half_split), t \in Texts, r \in MergeResponses }

CallClarificationAnswer ==
  /\ call.fn = "_handle_clarification_answer" /\ ~call.done
  /\ call' = [call EXCEPT
       !.done = TRUE,
       !.result = _handle_clarification_answer(
                    store_set(<<>>, 1, call.ctx), <<>>, 1, call.answer,
                    call.ctx, call.response, assume_half_split)]
  /\ UNCHANGED conversation

\* handle_message hands _handle_settlement the fresh PARSING context it
\* has just stored.  The texts are those that reach the sub-flow: by its
\* keywords, or by the intent of the expense parse (which a keyword query
\* never gets to).
SettlementCalls ==
  { [fn |-> "_handle_settlement", text |-> t, response |-> r,
     ctx |-> ConversationContext("parsing", 1, <<>>, None, FALSE),
     done |-> FALSE, result |-> NoResult] :
      t \in {x \in Texts : \/ _looks_like_settlement(x)
                             \/ ~(_looks_like_query(x) /\ ~has_digit(x))},
      r \in SettlementResponses }

CallHandleSettlement ==
  /\ call.fn = "_handle_settlement" /\ ~call.done
  /\ call' = [call EXCEPT
       !.done = TRUE,
       !.result = _handle_settlement(store_set(<<>>, 1, call.ctx), <<>>, 1,
                                     call.text, call.ctx, call.response)]
  /\ UNCHANGED conversation

\* ------------------------------------------------------------------------
\* FallbackLLMClient
\* ------------------------------------------------------------------------
\* An LLMResponse as a client returns it.  provider is the provider string
\* cut into its parts: <<"anthropic">>, or <<"anthropic", " (fallback)">>
\* once tagged.
ClientResponse(content, provider, model) ==
  [content |-> content, provider |-> provider, model |-> model]

NoResponse == ClientResponse("", <<>>, "")

FallbackTag == " (fallback)"

\* What a client's chat() does with a request: it returns a response or
\* raises an exception (a subclass of Exception).
Returns(response) == [raises |-> "none", response |-> response]
RaisesException(exc) == [raises |-> exc, response |-> NoResponse]

\* OllamaLLMClient.chat
PrimaryOutcomes ==
  {RaisesException(e) : e \in {"ConnectionError", "TimeoutError", "ValueError"}}
  \cup {Returns(ClientResponse(c, <<"ollama">>, "local")) : c \in {"", "primary ok"}}

\* PaidLLMClient.chat
FallbackOutcomes ==
  {RaisesException(e) : e \in {"RuntimeError", "AuthenticationError"}}
  \cup {Returns(ClientResponse(c, <<p>>, "paid")) :
          c \in {"", "fallback ok"}, p \in {"anthropic", "openai"}}

\* "fallback" in (llm_response.provider or "")
is_fallback(response) ==
  \E i \in DOMAIN response.provider : response.provider[i] = FallbackTag

tag_fallback_untagged(response) == response

\* response.provider = f"{response.provider} (fallback)"
tag_fallback(response) ==
  [response EXCEPT !.provider = Append(response.provider, FallbackTag)]

\* FallbackLLMClient.chat that asks the fallback whatever the primary did.
chat_always_fallback(primary, fallback, messages, tools) ==
  IF fallback.raises = "none"
    THEN [primary_calls |-> <<<<messages, tools>>>>,
          fallback_calls |-> <<<<messages, tools>>>>,
          raised |-> "none", response |-> tag_fallback(fallback.response)]
  ELSE [primary_calls |-> <<<<messages, tools>>>>,
        fallback_calls |-> <<<<messages, tools>>>>,
        raised |-> fallback.raises, response |-> NoResponse]

\* FallbackLLMClient.chat: primary and fallback are what the two clients
\* do when called; the result records the calls made, in order, with the
\* arguments passed.
chat(primary, fallback, messages, tools) ==
  IF primary.raises = "none"
    THEN [primary_calls |-> <<<<messages, tools>>>>, fallback_calls |-> <<>>,
          raised |-> "none", response |-> primary.response]
  ELSE IF fallback.raises = "none"
    THEN [primary_calls |-> <<<<messages, tools>>>>,
          fallback_calls |-> <<<<messages, tools>>>>,
          raised |-> "none", response |-> tag_fallback(fallback.response)]
  ELSE [primary_calls |-> <<<<messages, tools>>>>,
        fallback_calls |-> <<<<messages, tools>>>>,
        raised |-> fallback.raises, response |-> NoResponse]

ChatCalls ==
  { [fn |-> "chat", primary |-> p, fallback |-> f, messages |-> m, tools |-> t,
     done |-> FALSE,
     result |-> [primary_calls |-> <<>>, fallback_calls |-> <<>>,
                 raised |-> "none", response |-> NoResponse]] :
      p \in PrimaryOutcomes, f \in FallbackOutcomes,
      m \in {<<"system", "user">>, <<"user">>}, t \in {"None", "tools"} }

CallChat ==
  /\ call.fn = "chat" /\ ~call.done
  /\ call' = [call EXCEPT
       !.done = TRUE,
       !.result = chat(call.primary, call.fallback, call.messages, call.tools)]
  /\ UNCHANGED conversation

\* The sessions a new message can meet outside CLARIFYING: none, or one in
\* CONFIRMING left by the message before.
ParseStores ==
  { <<>>,
    store_set(<<>>, 1,
      ConversationContext("confirming", 1,
                          <<PendingExpense(300, "groceries", "user", 50, 50)>>,
                          None, FALSE)) }

\* The texts are those that get to the expense-parsing LLM call.
MessageCalls ==
  { [fn |-> "handle_message", store |-> st, text |-> t, response |-> r,
     done |-> FALSE, result |-> NoResult] :
      st \in ParseStores,
      t \in {x \in Texts : /\ ~_looks_like_settlement(x)
                            /\ ~(_looks_like_query(x) /\ ~has_digit(x))},
      r \in ParseResponses }

\* handle_message on a text that goes to the expense parse; the call a
\* sub-flow makes after it raises.
CallHandleMessage ==
  /\ call.fn = "handle_message" /\ ~call.done
  /\ call' = [call EXCEPT
       !.done = TRUE,
       !.result = handle_message(call.store, <<>>, 1, call.text, 2,
                                 <<call.response, Raises("error")>>,
                                 Storage([partnership |-> TRUE, fail |-> 0], 2),
                                 assume_half_split)]
  /\ UNCHANGED conversation

\* ------------------------------------------------------------------------
\* Balance engine
\* ------------------------------------------------------------------------
MaxEntries == 3

\* A Decimal is its number of hundredths (the amounts and percentages of
\* the model are whole numbers, so a share has at most two decimals and
\* every product, quotient and sum below is exact, as it is for Decimal).
Decimal(n) == n * 100

\* _settlement_effect that takes the other's share, as an expense does.
_settlement_effect_by_share(entry, user_a_id, user_b_id) ==
  LET amount == (Decimal(entry.amount) * entry.split_other_pct) \div 100 IN
  IF entry.payer_telegram_id = user_a_id THEN amount
  ELSE IF entry.payer_telegram_id = user_b_id THEN 0 - amount
  ELSE Decimal(0)

_settlement_effect(entry, user_a_id, user_b_id) ==
  LET amount == Decimal(entry.amount) IN
  IF entry.payer_telegram_id = user_a_id THEN amount
  ELSE IF entry.payer_telegram_id = user_b_id THEN 0 - amount
  ELSE Decimal(0)

\* _expense_effect that takes the payer's own share when user_b paid.
_expense_effect_own_share(entry, user_a_id, user_b_id) ==
  LET amount == Decimal(entry.amount) IN
  IF entry.payer_telegram_id = user_a_id
    THEN (amount * entry.split_other_pct) \div 100
  ELSE IF entry.payer_telegram_id = user_b_id
    THEN 0 - ((amount * entry.split_payer_pct) \div 100)
  ELSE Decimal(0)

_expense_effect(entry, user_a_id, user_b_id) ==
  LET amount == Decimal(entry.amount)
      other_share == (amount * entry.split_other_pct) \div 100
  IN IF entry.payer_telegram_id = user_a_id THEN other_share
     ELSE IF entry.payer_telegram_id = user_b_id THEN 0 - other_share
     ELSE Decimal(0)

_entry_effect(entry, user_a_id, user_b_id) ==
  IF entry.event_type \in {"expense", "correction"}
    THEN _expense_effect(entry, user_a_id, user_b_id)
  ELSE IF entry.event_type = "settlement"
    THEN _settlement_effect(entry, user_a_id, user_b_id)
  ELSE Decimal(0)

\* get_balance that starts from the second entry.
get_balance_skips_first(user_a_id, user_b_id, entries) ==
  LET RECURSIVE Loop(_, _)
      Loop(i, balance) ==
        IF i > Len(entries) THEN balance
        ELSE Loop(i + 1, balance + _entry_effect(entries[i], user_a_id, user_b_id))
  IN Loop(2, Decimal(0))

\* get_balance over the entries handed in: the loop adds the effect of each
\* entry, in list order, to a balance that starts at Decimal("0").
get_balance(user_a_id, user_b_id, entries) ==
  LET RECURSIVE Loop(_, _)
      Loop(i, balance) ==
        IF i > Len(entries) THEN balance
        ELSE Loop(i + 1, balance + _entry_effect(entries[i], user_a_id, user_b_id))
  IN Loop(1, Decimal(0))

\* The ledger entries of the samples: expenses, a correction and
\* settlements, paid by either partner or by the third user.
EntryPool ==
  { LedgerEntry(1, "expense", 300, "groceries", 1, 50, 50),
    LedgerEntry(1, "expense", 30, "groceries", 2, 35, 65),
    LedgerEntry(2, "expense", 300, "groceries", 3, 50, 50),
    LedgerEntry(2, "correction", 30, "groceries", 1, 0, 100),
    LedgerEntry(1, "settlement", 300, None, 2, 100, 0),
    LedgerEntry(2, "settlement", 30, None, 1, 100, 0) }

\* The two parties of a balance are the two users of a partnership, and
\* /setup refuses a partnership with oneself; user 3 is in neither role
\* when 1 and 2 are the parties.
BalanceCalls ==
  { [fn |-> "get_balance", user_a_id |-> ab[1], user_b_id |-> ab[2],
     entries |-> l, done |-> FALSE, result |-> 0] :
      ab \in {p \in (1..3) \X (1..3) : p[1] # p[2]},
      l \in UNION {[1..n -> EntryPool] : n \in 0..MaxEntries} }

CallGetBalance ==
  /\ call.fn = "get_balance" /\ ~call.done
  /\ call' = [call EXCEPT
       !.done = TRUE,
       !.result = get_balance(call.user_a_id, call.user_b_id, call.entries)]
  /\ UNCHANGED conversation

\* The entries _entry_effect is applied to: every kind (with one the ledger
\* does not know), every payer, and splits of every shape on every kind.
EntryEffectCalls ==
  { [fn |-> "_entry_effect",
     entry |-> LedgerEntry(1, k, m, None, p, s[1], s[2]),
     user_a_id |-> ab[1], user_b_id |-> ab[2], done |-> FALSE, result |-> 0] :
      k \in {"expense", "correction", "settlement", "unknown_type"},
      m \in {30, 300}, p \in 1..3,
      s \in {<<50, 50>>, <<35, 65>>, <<100, 0>>, <<0, 100>>},
      ab \in {q \in (1..3) \X (1..3) : q[1] # q[2]} }

CallEntryEffect ==
  /\ call.fn = "_entry_effect" /\ ~call.done
  /\ call' = [call EXCEPT
       !.done = TRUE,
       !.result = _entry_effect(call.entry, call.user_a_id, call.user_b_id)]
  /\ UNCHANGED conversation

\* validate_settlement on amounts of every sign, a payer who is either
\* partner or neither, partners different and equal, and a balance of
\* either sign, zero or not supplied.
ValidateSettlementCalls ==
  { [fn |-> "validate_settlement", amount |-> m, payer_telegram_id |-> p,
     user_a_id |-> ab[1], user_b_id |-> ab[2], current_balance |-> bal,
     done |-> FALSE, result |-> <<>>] :
      m \in {0 - 50, 0, 100, 200, 300}, p \in 1..3, ab \in (1..2) \X (1..2),
      bal \in {NoneNum, 0 - 200, 0 - 50, 0, 100, 200} }

CallValidateSettlement ==
  /\ call.fn = "validate_settlement" /\ ~call.done
  /\ call' = [call EXCEPT
       !.done = TRUE,
       !.result = validate_settlement(call.amount, call.payer_telegram_id,
                                      call.user_a_id, call.user_b_id,
                                      call.current_balance)]
  /\ UNCHANGED conversation

\* A registry after construction; registrations follow one another.
RegistryCalls ==
  { [fn |-> "registry", _tools |-> <<>>, before |-> <<>>, via |-> "none",
     name |-> "none", raised |-> FALSE, count |-> 0, done |-> FALSE] }

CallRegister ==
  /\ call.fn = "registry" /\ call.count < MaxRegistrations
  /\ \E via \in {"register", "tool"},
        name \in {"get_balance", "log_expense", "log_settlement"},
        description \in {"d1", "d2"} :
       \E res \in {IF via = "register"
                     THEN register(call._tools, name, description, "object", via)
                   ELSE tool(call._tools, name, description, "object", via)} :
         call' = [call EXCEPT !._tools = res._tools, !.before = call._tools,
                              !.via = via, !.name = name,
                              !.raised = res.raised,
                              !.count = call.count + 1, !.done = TRUE]
  /\ UNCHANGED conversation

\* A ConversationStore after construction; get, set, clear and has follow
\* one another for two users.
MaxStoreOps == 3

StoreContexts ==
  { DefaultContext,
    ConversationContext("clarifying", 1, <<PendingExpense(300, None, "user", 50, 50)>>, "category", FALSE),
    ConversationContext("confirming", 2, <<PendingExpense(120, "groceries", "partner", 70, 30)>>, None, FALSE) }

StoreCalls ==
  { [fn |-> "store", _store |-> <<>>, before |-> <<>>, op |-> "none",
     user_id |-> 0, ctx |-> DefaultContext, returned |-> None,
     count |-> 0, done |-> FALSE] }

CallStore ==
  /\ call.fn = "store" /\ call.count < MaxStoreOps
  /\ \E op \in {"get", "set", "clear", "has"}, user_id \in 1..2,
        ctx \in StoreContexts :
       call' = [call EXCEPT
         !._store = CASE op = "get" -> store_get(call._store, user_id)
                      [] op = "set" -> store_set(call._store, user_id, ctx)
                      [] op = "clear" -> store_clear(call._store, user_id)
                      [] OTHER -> call._store,
         !.returned = CASE op = "get" -> store_get(call._store, user_id)[user_id]
                        [] op = "has" -> store_has(call._store, user_id)
                        [] OTHER -> None,
         !.before = call._store, !.op = op, !.user_id = user_id,
         !.ctx = IF op = "set" THEN ctx ELSE DefaultContext,
         !.count = call.count + 1, !.done = TRUE]
  /\ UNCHANGED conversation

\* _merge_field_manually on one or two pending expenses that miss some,
\* all or none of the fields, for each field and answer.
MergePool ==
  { PendingExpense(300, "groceries", None, NoneNum, NoneNum),
    PendingExpense(120, "dining", "partner", 70, 30),
    PendingExpense(NoneNum, None, None, NoneNum, NoneNum),
    PendingExpense(300, None, "user", 50, NoneNum) }

MergeCalls ==
  { [fn |-> "_merge_field_manually", expenses |-> l, field_name |-> f,
     answer |-> a, done |-> FALSE, result |-> <<>>] :
      l \in [1..1 -> MergePool] \cup [1..2 -> MergePool],
      f \in {REQUIRED_EXPENSE_FIELDS[k] : k \in 1..5}, a \in Answers }

CallMergeFieldManually ==
  /\ call.fn = "_merge_field_manually" /\ ~call.done
  /\ call' = [call EXCEPT
       !.done = TRUE,
       !.result = _merge_field_manually(call.expenses, call.field_name, call.answer)]
  /\ UNCHANGED conversation

\* _parse_split on each answer.
ParseSplitCalls ==
  { [fn |-> "_parse_split", text |-> t, done |-> FALSE, result |-> NoSplit] :
      t \in Answers }

CallParseSplit ==
  /\ call.fn = "_parse_split" /\ ~call.done
  /\ call' = [call EXCEPT !.done = TRUE, !.result = ParseSplit(Chars(call.text))]
  /\ UNCHANGED conversation

\* handle_message on a text the query keywords catch, for each answer of
\* the LLM to the query prompt and each storage outcome.
QueryCalls ==
  { [fn |-> "_handle_query", text |-> "my balance", response |-> r, env |-> e,
     done |-> FALSE, result |-> NoResult] :
      r \in QueryResponses(1), e \in Envs }

CallHandleQuery ==
  /\ call.fn = "_handle_query" /\ ~call.done
  /\ call' = [call EXCEPT
       !.done = TRUE,
       !.result = handle_message(<<>>, <<>>, 1, call.text, 1, <<call.response>>,
                                 Storage(call.env, 1), assume_half_split)]
  /\ UNCHANGED conversation

\* A settlement checked against the balance of a ledger and then added to
\* it: validate_settlement with current_balance = get_balance(entries), and
\* get_balance before and after the settlement entry.
SettleCalls ==
  { [fn |-> "settle", user_a_id |-> ab[1], user_b_id |-> ab[2],
     payer_telegram_id |-> p, amount |-> m, entries |-> l,
     done |-> FALSE, errors |-> <<>>, before |-> 0, after |-> 0] :
      ab \in {<<1, 2>>, <<2, 1>>}, p \in 1..2, m \in {30, 150, 300},
      l \in UNION {[1..n -> EntryPool] : n \in 0..2} }

CallSettle ==
  /\ call.fn = "settle" /\ ~call.done
  /\ \E bal \in {get_balance(call.user_a_id, call.user_b_id, call.entries)} :
       call' = [call EXCEPT
         !.done = TRUE,
         !.before = bal,
         !.errors = validate_settlement(Decimal(call.amount), call.payer_telegram_id,
                                        call.user_a_id, call.user_b_id, bal),
         !.after = get_balance(call.user_a_id, call.user_b_id,
                     Append(call.entries,
                            LedgerEntry(1, "settlement", call.amount, None,
                                        call.payer_telegram_id, 100, 0)))]
  /\ UNCHANGED conversation

\* A single call: any of the functions above on any of its arguments.
InitCalls ==
  /\ QuietConversation
  /\ call \in ValidateCalls \cup ClarificationCalls(assume_half_split)
               \cup SettlementCalls \cup ChatCalls \cup MessageCalls
               \cup BalanceCalls \cup EntryEffectCalls
               \cup ValidateSettlementCalls \cup RegistryCalls
               \cup StoreCalls \cup MergeCalls \cup ParseSplitCalls
               \cup QueryCalls \cup SettleCalls

NextCalls ==
  \/ CallValidate
  \/ CallClarificationAnswer
  \/ CallHandleSettlement
  \/ CallChat
  \/ CallHandleMessage
  \/ CallGetBalance
  \/ CallEntryEffect
  \/ CallValidateSettlement
  \/ CallRegister
  \/ CallStore
  \/ CallMergeFieldManually
  \/ CallParseSplit
  \/ CallHandleQuery
  \/ CallSettle

SpecCalls == InitCalls /\ [][NextCalls]_vars


\* ------------------------------------------------------------------------
\* Handlers in flight.  A handler is a coroutine: it runs to its first
\* await of the LLM, the storage or the outbound send, other handlers may
\* run while it waits, and it then runs on from the store as it is by
\* then, with the context object it got before the await.  Each handler is
\* cut at that first await; what follows it runs as one step.  The
\* handlers are handle_message, handle_callback (a confirm awaits the
\* storage inside _commit; edit, cancel and a callback outside CONFIRMING
\* await nothing) and the form submission, which stores a CONFIRMING
\* context, awaits the send and stores the context again.
\*
\* call holds the handlers in flight (tasks) and, for the comparison with
\* a user whose updates run alone, the store and the ledger that result
\* when each user's updates are run whole on a store of that user only
\* (alone, alone_written, next to written: what each user wrote).  overlapped is the set of users who had two
\* handlers in flight at once; cleared is the set of users whose session a
\* cancel or a commit removed and who started no message or form since.
\* ------------------------------------------------------------------------
MaxUpdates == 4

TaskUsers == {1, 2}

TaskTexts == {"groceries 300", "my balance", "50/50"}

Task(id, kind, user_id, text, ctx, rid) == [id |-> id, kind |-> kind, user |-> user_id, text |-> text, ctx |-> ctx, rid |-> rid]

NoTasks == [fn |-> "tasks", done |-> FALSE, tasks |-> {}, alone |-> <<>>, written |-> [u \in TaskUsers |-> <<>>], alone_written |-> [u \in TaskUsers |-> <<>>], overlapped |-> {}, cleared |-> {}, actor |-> 0, count |-> 0]

InFlight(user_id) == \E k \in call.tasks : k.user = user_id

\* The store of user_id alone, and the stores alone after a run on it.
Only(st, user_id) == [u \in DOMAIN st \cap {user_id} |-> st[u]]
AloneAfter(alone, user_id, st) ==
  [u \in (DOMAIN alone \ {user_id}) \cup (DOMAIN st \cap {user_id}) |->
     IF u = user_id THEN st[u] ELSE alone[u]]

\* A context is one object: a handler that sets the state of the context
\* it holds sets it for every handler in flight that holds the same one.
Aliased(tasks, raw_input_id, state) ==
  {[k EXCEPT !.ctx.state = IF k.ctx.raw_input_id = raw_input_id THEN state ELSE @] :
     k \in tasks}

\* What the LLM answers to the first chat() call of a message in flight.
TaskResponses(k) ==
  IF k.ctx.state = "clarifying"
    THEN {Raises("error"), LLMResponse("none", "", <<>>)}
  ELSE IF _looks_like_query(k.text) /\ ~has_digit(k.text)
    THEN {LLMResponse("none", "text", <<>>),
          LLMResponse("none", "", <<ToolCall("log_settlement",
            [amount |-> 300, payer |-> "partner", raw_input_id |-> k.rid])>>)}
  ELSE {Raises("error"),
        LLMResponse("none", "", <<ParseExpenseCall("expense",
          <<PendingExpense(300, "groceries", "user", 50, 50)>>)>>),
        LLMResponse("none", "", <<ParseExpenseCall("expense",
          <<PendingExpense(300, "groceries", None, NoneNum, NoneNum)>>)>>)}

TaskStorage == Storage([partnership |-> TRUE, fail |-> 0], raw_inputs)

\* handle_text saves the raw input; handle_message runs to its first
\* chat() call.
BeginMessage(user_id, text) ==
  /\ call.fn = "tasks" /\ call.count < MaxUpdates /\ raw_inputs < MaxMessages
  /\ ~InFlight(user_id)
  /\ LET st0 == store_get(store, user_id)
         ctx == st0[user_id]
         fresh == ConversationContext("parsing", raw_inputs + 1, <<>>, None, FALSE)
     IN /\ store' = IF ctx.state = "clarifying" THEN st0
                    ELSE store_set(st0, user_id, fresh)
        /\ call' = [call EXCEPT
             !.tasks = @ \cup {Task(call.count + 1, "message", user_id, text,
                                    IF ctx.state = "clarifying" THEN ctx ELSE fresh,
                                    raw_inputs + 1)},
             !.cleared = @ \ {user_id}, !.actor = user_id, !.count = @ + 1]
  /\ raw_inputs' = raw_inputs + 1
  /\ UNCHANGED <<ledger_rows, assume_half_split, last>>

\* The chat() call returns or raises and handle_message runs to its end.
FinishMessage(id) ==
  \E k \in call.tasks :
  /\ call.fn = "tasks" /\ k.id = id /\ k.kind = "message"
  /\ \E r1 \in TaskResponses(k) :
       LET llm == <<r1, Raises("error")>> IN
       \E res \in {IF k.ctx.state = "clarifying"
                     THEN _handle_clarification_answer(store, <<>>, k.user, k.text,
                            k.ctx, r1, assume_half_split)
                   ELSE _parse_and_validate(store, <<>>, k.user, k.text, k.ctx, llm,
                                            TaskStorage, assume_half_split)},
          solo \in {handle_message(Only(call.alone, k.user), <<>>, k.user, k.text,
                                   k.rid, llm, TaskStorage, assume_half_split)} :
         /\ LedgerSize + Len(res.ledger) <= MaxLedger
         /\ store' = res.store
         /\ ledger_rows' = AddRows(ledger_rows, res.ledger)
         /\ call' = [call EXCEPT
              !.tasks = @ \ {k},
              !.alone = AloneAfter(@, k.user, solo.store),
              !.written[k.user] = @ \o res.ledger,
              !.alone_written[k.user] = @ \o solo.ledger,
              !.actor = k.user]
  /\ UNCHANGED <<raw_inputs, assume_half_split, last>>

\* handle_callback: a confirm on a CONFIRMING session runs to the first
\* await of _commit; every other callback runs to its end.
BeginCallback(user_id, callback_data) ==
  /\ call.fn = "tasks" /\ call.count < MaxUpdates
  /\ LET confirming == SessionState(store, user_id) = "confirming"
         action == CallbackAction(callback_data)
     IN IF confirming /\ action = "confirm"
          THEN /\ store' = store
               /\ call' = [call EXCEPT
                    !.tasks = @ \cup {Task(call.count + 1, "confirm", user_id, "",
                                           store[user_id], raw_inputs)},
                    !.overlapped = IF InFlight(user_id) THEN @ \cup {user_id} ELSE @,
                    !.actor = user_id, !.count = @ + 1]
        ELSE \E res \in {handle_callback(store, <<>>, user_id, callback_data,
                                         TaskStorage)},
                solo \in {handle_callback(Only(call.alone, user_id), <<>>, user_id,
                                          callback_data, TaskStorage)} :
               /\ store' = res.store
               /\ call' = [call EXCEPT
                    !.tasks = IF confirming /\ action = "edit"
                                THEN Aliased(@, store[user_id].raw_input_id, "clarifying")
                              ELSE @,
                    !.alone = AloneAfter(@, user_id, solo.store),
                    !.overlapped = IF InFlight(user_id) THEN @ \cup {user_id} ELSE @,
                    !.cleared = IF confirming /\ action = "cancel"
                                  THEN @ \cup {user_id} ELSE @,
                    !.actor = user_id, !.count = @ + 1]
  /\ UNCHANGED <<ledger_rows, raw_inputs, assume_half_split, last>>

\* FinishConfirm with a guard of its own: it looks at the stored session
\* again before it writes.
FinishConfirmGuarded(id) ==
  \E k \in call.tasks :
  /\ call.fn = "tasks" /\ k.id = id /\ k.kind = "confirm"
  /\ \E res \in {IF SessionState(store, k.user) = "confirming"
                   THEN _commit(store, <<>>, k.user, k.ctx, TaskStorage)
                 ELSE Result(store, <<>>, "no_pending", FALSE, 0)} :
       /\ LedgerSize + Len(res.ledger) <= MaxLedger
       /\ store' = res.store
       /\ ledger_rows' = AddRows(ledger_rows, res.ledger)
       /\ call' = [call EXCEPT !.tasks = @ \ {k}, !.written[k.user] = @ \o res.ledger,
                                !.actor = k.user]
  /\ UNCHANGED <<raw_inputs, assume_half_split, last>>

\* The storage answers and _commit runs to its end: it writes the pending
\* expenses of the context it holds, sets its state and clears the store.
FinishConfirm(id) ==
  \E k \in call.tasks :
  /\ call.fn = "tasks" /\ k.id = id /\ k.kind = "confirm"
  /\ \E res \in {_commit(store, <<>>, k.user, k.ctx, TaskStorage)},
        solo \in {handle_callback(Only(call.alone, k.user), <<>>, k.user,
                                  <<"confirm", "">>, TaskStorage)} :
       /\ LedgerSize + Len(res.ledger) <= MaxLedger
       /\ store' = res.store
       /\ ledger_rows' = AddRows(ledger_rows, res.ledger)
       /\ call' = [call EXCEPT
            !.tasks = Aliased(@ \ {k}, k.ctx.raw_input_id, "committing"),
            !.alone = AloneAfter(@, k.user, solo.store),
            !.written[k.user] = @ \o res.ledger,
            !.alone_written[k.user] = @ \o solo.ledger,
            !.cleared = @ \cup {k.user},
            !.actor = k.user]
  /\ UNCHANGED <<raw_inputs, assume_half_split, last>>

\* A form submission with a complete expense: the raw input is saved, the
\* CONFIRMING context is stored and the summary is being sent.
BeginSubmit(user_id) ==
  /\ call.fn = "tasks" /\ call.count < MaxUpdates /\ raw_inputs < MaxMessages
  /\ ~InFlight(user_id)
  /\ LET ctx == ConversationContext("confirming", raw_inputs + 1,
                  <<PendingExpense(300, "groceries", "user", 50, 50)>>, None, FALSE)
     IN /\ store' = store_set(store, user_id, ctx)
        /\ call' = [call EXCEPT
             !.tasks = @ \cup {Task(call.count + 1, "submit", user_id, "", ctx,
                                    raw_inputs + 1)},
             !.alone = store_set(@, user_id, ctx),
             !.cleared = @ \ {user_id}, !.actor = user_id, !.count = @ + 1]
  /\ raw_inputs' = raw_inputs + 1
  /\ UNCHANGED <<ledger_rows, assume_half_split, last>>

\* FinishSubmit that stores the context only if it is still the stored one.
FinishSubmitIfStored(id) ==
  \E k \in call.tasks :
  /\ call.fn = "tasks" /\ k.id = id /\ k.kind = "submit"
  /\ store' = IF store_has(store, k.user)
                 /\ store[k.user].raw_input_id = k.ctx.raw_input_id
                THEN store_set(store, k.user, k.ctx) ELSE store
  /\ call' = [call EXCEPT !.tasks = @ \ {k}, !.actor = k.user]
  /\ UNCHANGED <<ledger_rows, raw_inputs, assume_half_split, last>>

\* The send returns: the handler notes the message id in the context it
\* holds and stores it again.
FinishSubmit(id) ==
  \E k \in call.tasks :
  /\ call.fn = "tasks" /\ k.id = id /\ k.kind = "submit"
  /\ store' = store_set(store, k.user, k.ctx)
  /\ call' = [call EXCEPT
       !.tasks = @ \ {k},
       !.alone = store_set(@, k.user, k.ctx),
       !.actor = k.user]
  /\ UNCHANGED <<ledger_rows, raw_inputs, assume_half_split, last>>

InitTasks == QuietConversation /\ call = NoTasks

NextTasks ==
  \/ \E u \in TaskUsers, t \in TaskTexts : BeginMessage(u, t)
  \/ \E id \in 1..MaxUpdates : FinishMessage(id)
  \/ \E u \in TaskUsers, d \in CallbackData : BeginCallback(u, d)
  \/ \E id \in 1..MaxUpdates : FinishConfirm(id)
  \/ \E u \in TaskUsers : BeginSubmit(u)
  \/ \E id \in 1..MaxUpdates : FinishSubmit(id)

SpecTasks == InitTasks /\ [][NextTasks]_vars

\* ------------------------------------------------------------------------
\* The clarification loop.  A session in CLARIFYING, as _validate or
\* _start_edit leaves it, is answered message by message; to every merge
\* prompt the LLM returns no tool call, so that the answer is merged by
\* _merge_field_manually, and every answer is a valid value of the field
\* asked.  call counts the answers and keeps the number of missing
\* required fields the loop started with.
\* ------------------------------------------------------------------------
MaxAnswers == 6

\* The number of required fields that are None, over all pending expenses.
RECURSIVE MissingCount(_)
MissingCount(expenses) ==
  IF expenses = <<>> THEN 0
  ELSE Len(missing_fields(Head(expenses))) + MissingCount(Tail(expenses))

Missing(st, user_id) ==
  IF store_has(st, user_id) THEN MissingCount(st[user_id].pending_expenses) ELSE 0

ClarifyPool ==
  MergePool \cup { PendingExpense(300, "groceries", "user", 50, 50),
                   PendingExpense(300, "groceries", "user", NoneNum, 100),
                   PendingExpense(NoneNum, "groceries", "partner", 70, 30) }

\* The valid values of each field among the answers; after Edit no field
\* is asked and the user says what to change.
ValidAnswers(field_name) ==
  CASE field_name = "amount" -> {"300", "150"}
    [] field_name = "category" -> {"groceries"}
    [] field_name = "payer" -> {"me", "partner"}
    [] field_name \in {"split_payer_pct", "split_other_pct"} -> {"50/50", "70/30", "60%"}
    [] OTHER -> {"300", "partner"}

\* The sessions in CLARIFYING: _validate found a field missing, or the
\* user pressed Edit on a confirmation.
ClarifyingStores(half) ==
  LET lists == UNION {[1..n -> ClarifyPool] : n \in 1..MaxExpenses}
      asked == {_validate(<<>>, <<>>, 1,
                          ConversationContext("validating", 1, l, None, s), half).store :
                  l \in lists, s \in BOOLEAN}
      edited == {_start_edit(<<>>, <<>>, 1, st[1]).store :
                   st \in {x \in asked : x[1].state = "confirming"}}
  IN {st \in asked \cup edited : st[1].state = "clarifying"}

InitClarify ==
  /\ assume_half_split \in BOOLEAN
  /\ store \in ClarifyingStores(assume_half_split)
  /\ ledger_rows = [r \in 1..MaxMessages |-> 0]
  /\ raw_inputs = 1
  /\ last = NoUpdate
  /\ call = [fn |-> "clarify", done |-> FALSE, count |-> 0,
             missing0 |-> Missing(store, 1), asked |-> None, before |-> 0]

\* One answer: handle_text saves it and handle_message merges it.
Answer ==
  /\ call.fn = "clarify" /\ call.count < MaxAnswers
  /\ SessionState(store, 1) = "clarifying"
  /\ \E answer \in ValidAnswers(store[1].clarification_field) :
       \E res \in {handle_message(store, <<>>, 1, answer, raw_inputs + 1,
                                  <<LLMResponse("none", "", <<>>)>>,
                                  Storage([partnership |-> TRUE, fail |-> 0], raw_inputs + 1),
                                  assume_half_split)} :
         /\ store' = res.store
         /\ call' = [call EXCEPT !.count = @ + 1,
                                 !.asked = store[1].clarification_field,
                                 !.before = Missing(store, 1),
                                 !.done = SessionState(res.store, 1) = "confirming"]
  /\ raw_inputs' = raw_inputs + 1
  /\ UNCHANGED <<ledger_rows, assume_half_split, last>>

\* The user goes on answering as long as a question is open.
SpecClarify == InitClarify /\ [][Answer]_vars /\ WF_vars(Answer)

\* ------------------------------------------------------------------------
\* Properties
\* ------------------------------------------------------------------------
\* The update of this step is a message / a callback of the given action.
MessageStep == last'.op = "message" /\ raw_inputs' = raw_inputs + 1
CallbackStep(action) ==
  last'.op = "callback" /\ last'.arg = action /\ raw_inputs' = raw_inputs

\* C1: handle_message routes on the stored state.  From CLARIFYING the text
\* is merged into the existing round: the context stays, keeps its
\* raw_input_id and the number of its pending expenses, and nothing is
\* written.  From every other state (no session included) the round starts
\* afresh: a context that remains carries the new raw_input_id, and no
\* ledger entry written carries the raw_input_id of the replaced context.
C1_RoutesOnStoredState ==
  [][MessageStep =>
       LET u == last'.user
           prior == SessionState(store, u)
       IN /\ last'.prior = prior
          /\ prior = "clarifying" =>
               /\ store_has(store', u)
               /\ store'[u].raw_input_id = store[u].raw_input_id
               /\ Len(store'[u].pending_expenses) = Len(store[u].pending_expenses)
               /\ store'[u].is_settlement = store[u].is_settlement
               /\ last'.writes = <<>>
          /\ prior # "clarifying" =>
               /\ store_has(store', u) => store'[u].raw_input_id = raw_inputs'
               /\ prior # "none" =>
                    \A i \in DOMAIN last'.writes :
                      last'.writes[i].raw_input_id # store[u].raw_input_id
               /\ prior \notin {"none", "idle"} => ledger_rows'[store[u].raw_input_id]
                                                    = ledger_rows[store[u].raw_input_id]
  ]_vars

\* A message that arrived in CONFIRMING replaced the session by one of the
\* new round.
C1_Witness ==
  /\ last.op = "message" /\ last.prior = "confirming"
  /\ raw_inputs >= 2
  /\ store_has(store, last.user)
  /\ store[last.user].raw_input_id = raw_inputs
  /\ store[last.user].pending_expenses # <<>>

C3_NoStateChange ==
  [][(\E a \in {"confirm", "edit", "cancel", "other"} : CallbackStep(a))
      /\ SessionState(store, last'.user) # "confirming" =>
       /\ last'.reply = "no_pending"
       /\ last'.writes = <<>>
       /\ store' = store
  ]_vars

\* C3 as amended: a callback outside CONFIRMING answers "no pending" and
\* writes nothing; it leaves an existing context as it is, and for a user
\* without a session it installs a default context (IDLE, nothing pending),
\* so that store.has becomes true.
C3_NoPendingInstallsDefault ==
  [][(\E a \in {"confirm", "edit", "cancel", "other"} : CallbackStep(a))
      /\ SessionState(store, last'.user) # "confirming" =>
       /\ last'.reply = "no_pending"
       /\ ~last'.keyboard /\ ~last'.raised
       /\ last'.writes = <<>>
       /\ ledger_rows' = ledger_rows
       /\ store' = IF store_has(store, last'.user) THEN store
                   ELSE store_set(store, last'.user, DefaultContext)
  ]_vars

\* A confirm callback of a user without a session was answered.
C3_Witness ==
  /\ last.op = "callback" /\ last.arg = "confirm" /\ last.prior = "none"
  /\ last.reply = "no_pending"
  /\ store_has(store, last.user)
  /\ store[last.user] = DefaultContext

\* C4: a cancel callback in CONFIRMING removes the session and writes no
\* ledger entry.
C4_CancelRemovesSession ==
  [][(CallbackStep("cancel") /\ SessionState(store, last'.user) = "confirming") =>
       /\ ~store_has(store', last'.user)
       /\ last'.reply = "cancelled"
       /\ last'.writes = <<>>
       /\ ledger_rows' = ledger_rows
  ]_vars

\* A cancel discarded a CONFIRMING session.
C4_Witness ==
  /\ last.op = "callback" /\ last.arg = "cancel" /\ last.prior = "confirming"
  /\ last.reply = "cancelled"
  /\ ~store_has(store, last.user)

\* C5: an edit callback in CONFIRMING moves the session to CLARIFYING with
\* clarification_field unset and everything else unchanged, and writes
\* nothing; a text that arrives for a session in CLARIFYING with no
\* clarification_field goes the clarification-merge way: the context stays
\* in the same round, CLARIFYING or CONFIRMING, and nothing is written.
C5_EditEntersGeneralEdit ==
  [][LET u == last'.user IN
     /\ (CallbackStep("edit") /\ SessionState(store, u) = "confirming") =>
          /\ store' = store_set(store, u,
                        [store[u] EXCEPT !.state = "clarifying",
                                         !.clarification_field = None])
          /\ store'[u].pending_expenses = store[u].pending_expenses
          /\ store'[u].raw_input_id = store[u].raw_input_id
          /\ store'[u].is_settlement = store[u].is_settlement
          /\ last'.reply = "what_to_change"
          /\ last'.writes = <<>>
          /\ ledger_rows' = ledger_rows
     /\ (MessageStep /\ SessionState(store, u) = "clarifying"
         /\ store[u].clarification_field = None) =>
          /\ last'.branch = "clarification"
          /\ store_has(store', u)
          /\ store'[u].raw_input_id = store[u].raw_input_id
          /\ store'[u].state \in {"clarifying", "confirming"}
          /\ Len(store'[u].pending_expenses) = Len(store[u].pending_expenses)
          /\ last'.reply \in {"trouble_answer", "clarification_question",
                              "confirmation_summary"}
          /\ last'.writes = <<>>
  ]_vars

\* An edit moved a CONFIRMING session to CLARIFYING with no field.
C5_Witness ==
  /\ last.op = "callback" /\ last.arg = "edit" /\ last.prior = "confirming"
  /\ store_has(store, last.user)
  /\ store[last.user].state = "clarifying"
  /\ store[last.user].clarification_field = None
  /\ store[last.user].pending_expenses # <<>>

\* C6: a ledger entry is written only by a confirm callback on a session in
\* CONFIRMING; no message, in whatever state, and no edit or cancel
\* callback writes one.
C6_WritesOnlyOnConfirm ==
  last.writes # <<>> =>
    last.op = "callback" /\ last.arg = "confirm" /\ last.prior = "confirming"

C8_NonActionableLeavesNoContext ==
  (last.op = "message" /\ last.branch \in {"query_keyword", "query", "non_expense"}) =>
    ~store_has(store, last.user)

\* C9 as stated: in every stored context clarification_field is set if and
\* only if the state is CLARIFYING.
C9_FieldIffClarifying ==
  \A u \in DOMAIN store :
    (store[u].clarification_field # None) <=> (store[u].state = "clarifying")

\* C9 as amended: in every stored context a set clarification_field implies
\* the state CLARIFYING and names a required field; a CLARIFYING context
\* has no clarification_field only from an edit callback on (general edit),
\* until a text is merged.
C9_FieldOnlyWhenClarifying ==
  [][\A u \in DOMAIN store' :
       /\ store'[u].clarification_field # None =>
            /\ store'[u].state = "clarifying"
            /\ \E i \in DOMAIN REQUIRED_EXPENSE_FIELDS :
                 REQUIRED_EXPENSE_FIELDS[i] = store'[u].clarification_field
       /\ (store'[u].state = "clarifying" /\ store'[u].clarification_field = None) =>
            \/ last'.op = "callback" /\ last'.arg = "edit" /\ last'.prior = "confirming"
            \/ u \in DOMAIN store /\ store[u] = store'[u]
  ]_vars

\* An answer was merged and the question about a field is pending again.
C9_Witness ==
  /\ last.op = "message" /\ last.prior = "clarifying"
  /\ last.reply = "clarification_question"
  /\ store_has(store, last.user)
  /\ store[last.user].state = "clarifying"
  /\ store[last.user].clarification_field = "category"

\* C10: in every stored context pending_expenses is empty only if the state
\* is IDLE.
C10_EmptyOnlyInIdle ==
  \A u \in DOMAIN store :
    store[u].pending_expenses = <<>> => store[u].state = "idle"


\* The expense has all five required fields.
C11_HasAll(exp) ==
  /\ exp.amount # NoneNum /\ exp.category # None /\ exp.payer # None
  /\ exp.split_payer_pct # NoneNum /\ exp.split_other_pct # NoneNum

\* The first absent field, in the fixed order, of the first expense in list
\* order that lacks one.
C11_FieldAsked(pending) ==
  LET i == CHOOSE k \in DOMAIN pending :
             /\ ~C11_HasAll(pending[k])
             /\ \A j \in 1..(k - 1) : C11_HasAll(pending[j])
      exp == pending[i]
  IN IF exp.amount = NoneNum THEN "amount"
     ELSE IF exp.category = None THEN "category"
     ELSE IF exp.payer = None THEN "payer"
     ELSE IF exp.split_payer_pct = NoneNum THEN "split_payer_pct"
     ELSE "split_other_pct"

\* C11: _validate leaves the session in CONFIRMING, with the confirmation
\* keyboard, exactly when every pending expense has all of amount, category,
\* payer, split_payer_pct and split_other_pct; otherwise it leaves it in
\* CLARIFYING, without keyboard, and clarification_field is the first absent
\* field, in that order, of the first incomplete expense in list order.  The
\* pending expenses are those handed in, but for the default split.
C11_ValidateOutcome ==
  (call.fn = "_validate" /\ call.done) =>
    LET c == call.result.store[1]
        pending == c.pending_expenses
    IN /\ ~assume_half_split => pending = call.ctx.pending_expenses
       /\ Len(pending) = Len(call.ctx.pending_expenses)
       /\ IF \A i \in DOMAIN pending : C11_HasAll(pending[i])
            THEN c.state = "confirming" /\ call.result.keyboard
          ELSE /\ c.state = "clarifying" /\ ~call.result.keyboard
               /\ c.clarification_field = C11_FieldAsked(pending)

\* A batch whose first expense is complete and whose second lacks category
\* and payer: the category of the second is asked.
C11_Witness ==
  /\ call.fn = "_validate" /\ call.done
  /\ Len(call.ctx.pending_expenses) = 2
  /\ C11_HasAll(call.ctx.pending_expenses[1])
  /\ call.ctx.pending_expenses[2].amount # NoneNum
  /\ call.ctx.pending_expenses[2].category = None
  /\ call.ctx.pending_expenses[2].payer = None
  /\ call.result.store[1].state = "clarifying"
  /\ call.result.store[1].clarification_field = "category"

\* The expense list of the LLM's answer to the merge prompt; <<>> when the
\* call raised, made no tool call or named no expenses.
C12_LlmList(response) ==
  IF response.raises = "none" /\ response.tool_calls # <<>>
       /\ "expenses" \in DOMAIN response.tool_calls[1].arguments
    THEN response.tool_calls[1].arguments.expenses
  ELSE <<>>

\* The original expense is kept: a field it had keeps its value, and of the
\* fields it lacked only the one asked (with its twin, for a split) and the
\* default split can have been filled.
C12_Kept(old, new, field_name) ==
  /\ old.amount # NoneNum \/ field_name # "amount" => new.amount = old.amount
  /\ old.category # None \/ field_name # "category" => new.category = old.category
  /\ old.payer # None \/ field_name # "payer" => new.payer = old.payer
  /\ old.split_payer_pct # NoneNum => new.split_payer_pct = old.split_payer_pct
  /\ old.split_other_pct # NoneNum => new.split_other_pct = old.split_other_pct

\* C12: a clarification answer never changes the number of pending
\* expenses.  An LLM expense list replaces the pending list only when it
\* has the same length; when the lengths differ, or the LLM made no tool
\* call, every original expense is kept and only the field asked is merged
\* into it; when the LLM call raised the session is left as it was.
C12_AnswerKeepsCount ==
  (call.fn = "_handle_clarification_answer" /\ call.done) =>
    LET old == call.ctx.pending_expenses
        new == call.result.store[1].pending_expenses
        llm == C12_LlmList(call.response)
    IN /\ Len(new) = Len(old)
       /\ call.response.raises # "none" => call.result.store[1] = call.ctx
       /\ (call.response.raises = "none" /\ llm # <<>> /\ Len(llm) = Len(old)) =>
            \A i \in DOMAIN new :
              /\ new[i].amount = llm[i].amount
              /\ new[i].category = llm[i].category
              /\ new[i].payer = llm[i].payer
       /\ (call.response.raises = "none" /\ (llm = <<>> \/ Len(llm) # Len(old))) =>
            \A i \in DOMAIN new :
              C12_Kept(old[i], new[i], call.ctx.clarification_field)

\* One pending expense waits for its payer; the LLM answers with a list of
\* two; the one expense stays and gets the payer of the answer.
C12_Witness ==
  /\ call.fn = "_handle_clarification_answer" /\ call.done
  /\ call.ctx.clarification_field = "payer"
  /\ call.answer = "partner"
  /\ Len(call.ctx.pending_expenses) = 1
  /\ Len(C12_LlmList(call.response)) = 2
  /\ Len(call.result.store[1].pending_expenses) = 1
  /\ call.result.store[1].pending_expenses[1].payer = "partner"

\* The settlement data of the call: <<>> when the LLM call raised or its
\* answer holds none.
C13_Found ==
  IF call.response.raises # "none" THEN <<>> ELSE _extract_settlement(call.response)

\* The amount extracted, after the deterministic correction from the text.
C13_Amount ==
  IF C13_Found = <<>> THEN NoneNum
  ELSE _postprocess_settlement(call.text, C13_Found[1])

C13_Payer == IF C13_Found = <<>> THEN None ELSE GetPayer(C13_Found[1])

\* The session holds one pending item: the amount and payer extracted,
\* split 100/0, no category, is_settlement set.
C13_SingleItem(c) ==
  /\ c.pending_expenses = <<PendingExpense(C13_Amount, None, C13_Payer, 100, 0)>>
  /\ c.is_settlement

\* The three endings the sub-flow has once settlement data is there.
C13_Endings ==
  LET r == call.result IN
  /\ C13_Amount = NoneNum => ~store_has(r.store, 1) /\ r.reply = "how_much"
  /\ (C13_Amount # NoneNum /\ C13_Payer = None) =>
       /\ store_has(r.store, 1) /\ r.store[1].state = "clarifying"
       /\ r.store[1].clarification_field = "payer"
       /\ r.reply = "who_made_this_payment" /\ ~r.keyboard
       /\ C13_SingleItem(r.store[1])
  /\ (C13_Amount # NoneNum /\ C13_Payer # None) =>
       /\ store_has(r.store, 1) /\ r.store[1].state = "confirming"
       /\ r.reply = "settlement_confirmation" /\ r.keyboard
       /\ C13_SingleItem(r.store[1])

\* C13 as stated: the settlement sub-flow ends in exactly one of three
\* ways: no amount extracted, the session is cleared and the user is asked
\* how much; an amount but no payer, CLARIFYING with clarification_field
\* payer; otherwise CONFIRMING with the keyboard; in the last two the
\* session holds a single pending item with split 100/0, no category and
\* is_settlement set.
C13_ThreeEndings ==
  (call.fn = "_handle_settlement" /\ call.done) => C13_Endings

\* C13, amended: the sub-flow has two endings more.  When the LLM call
\* raises, the session is cleared and the reply is the trouble message;
\* when the answer holds no settlement data, the session is cleared and the
\* reply says the details could not be parsed.  Once settlement data is
\* there, it ends in exactly one of the three ways of the claim.
C13_FiveEndings ==
  (call.fn = "_handle_settlement" /\ call.done) =>
    LET r == call.result IN
    /\ call.response.raises # "none" =>
         ~store_has(r.store, 1) /\ r.reply = "trouble_settlement" /\ ~r.keyboard
    /\ (call.response.raises = "none" /\ C13_Found = <<>>) =>
         /\ ~store_has(r.store, 1) /\ ~r.keyboard
         /\ r.reply = "could_not_parse_settlement"
    /\ C13_Found # <<>> => C13_Endings

\* "settled up 300" with an LLM answer that names neither amount nor payer:
\* the amount comes from the text and the payer is asked.
C13_Witness ==
  /\ call.fn = "_handle_settlement" /\ call.done
  /\ call.text = "settled up 300"
  /\ C13_Found # <<>> /\ GetAmount(C13_Found[1]) = NoneNum /\ C13_Payer = None
  /\ call.result.store[1].state = "clarifying"
  /\ call.result.store[1].pending_expenses[1].amount = 300

\* C14: in a session with is_settlement set the orchestrator never asks for
\* a category or a split: such a session is never in CLARIFYING with
\* clarification_field category, split_payer_pct or split_other_pct, and
\* the last reply to it is never the clarification question of _validate
\* (once the payer is answered the session is in CONFIRMING).
C14_SettlementNeverAsksCategory ==
  \A u \in DOMAIN store :
    store[u].is_settlement =>
      /\ store[u].clarification_field
           \notin {"category", "split_payer_pct", "split_other_pct"}
      /\ (last.op = "message" /\ last.user = u /\ last.prior = "clarifying"
            /\ ~last.llm_raised)
           => store[u].state = "confirming"

\* C15: FallbackLLMClient.chat makes a single fallback hop.  The primary is
\* called exactly once; the fallback is called, exactly once and with the
\* same messages and tools, if and only if the primary raised; when the
\* fallback raises too, its exception propagates and nothing more is tried;
\* in every other case chat() returns a response.
C15_SingleFallbackHop ==
  (call.fn = "chat" /\ call.done) =>
    LET request == <<call.messages, call.tools>>
        r == call.result
    IN /\ r.primary_calls = <<request>>
       /\ IF call.primary.raises # "none" THEN r.fallback_calls = <<request>>
          ELSE r.fallback_calls = <<>>
       /\ IF call.primary.raises # "none" /\ call.fallback.raises # "none"
            THEN r.raised = call.fallback.raises
          ELSE r.raised = "none"

\* The primary raises and so does the fallback: one call each, and the
\* fallback's exception comes out.
C15_Witness ==
  /\ call.fn = "chat" /\ call.done
  /\ call.primary.raises = "ConnectionError"
  /\ call.fallback.raises = "RuntimeError"
  /\ Len(call.result.fallback_calls) = 1
  /\ call.result.raised = "RuntimeError"

\* C16: the response chat() returns carries the fallback marker in its
\* provider if and only if the fallback client produced it; the primary's
\* response is returned as it came, and the fallback's is changed in its
\* provider only.
C16_MarkerIffFallback ==
  (call.fn = "chat" /\ call.done /\ call.result.raised = "none") =>
    LET r == call.result.response IN
    /\ is_fallback(r) <=> call.primary.raises # "none"
    /\ call.primary.raises = "none" => r = call.primary.response
    /\ call.primary.raises # "none" =>
         /\ r.content = call.fallback.response.content
         /\ r.model = call.fallback.response.model
         /\ r.provider = call.fallback.response.provider \o <<FallbackTag>>

\* The primary raises and the fallback answers: the response is the
\* fallback's, its provider tagged.
C16_Witness ==
  /\ call.fn = "chat" /\ call.done
  /\ call.primary.raises = "TimeoutError"
  /\ call.fallback.raises = "none"
  /\ call.result.response.content = "fallback ok"
  /\ call.result.response.provider = <<"anthropic", FallbackTag>>

\* C17: no exception of an LLM call or a storage call made inside
\* handle_message or handle_callback propagates: every update ends with an
\* OrchestratorResult, a failing ledger write during a commit included.
C17_NoExceptionPropagates == ~last.raised

\* The expense-parsing call of handle_message raised exc: the session is
\* cleared, and the reply is the configure-a-key reply for the exceptions
\* of auth_class and the generic trouble reply for every other.
C18_RepliesBy(auth_class) ==
  (call.fn = "handle_message" /\ call.done /\ call.response.raises # "none") =>
    /\ ~store_has(call.result.store, 1)
    /\ ~call.result.raised /\ ~call.result.keyboard
    /\ IF call.response.raises \in auth_class
         THEN call.result.reply = "llm_auth_reply"
       ELSE call.result.reply = "trouble_message"

\* C18 as stated: the authentication-class exceptions are the typed
\* authentication error and the exceptions whose text contains 401,
\* invalid_api_key or unauthorized; they clear the session and give the
\* configure-a-key reply; any other exception gives the generic reply.
C18_ThreeMarkers ==
  C18_RepliesBy({"auth", "status_401", "invalid_api_key", "unauthorized"})

\* C18, amended: the text marker "incorrect api key" makes an exception
\* authentication-class too (all markers are looked for in the lower-cased
\* text); with it, authentication-class exceptions clear the session and
\* give the configure-a-key reply, and any other exception clears the
\* session and gives the generic trouble reply.
C18_FourMarkers ==
  C18_RepliesBy({"auth", "status_401", "invalid_api_key", "incorrect_api_key",
                 "unauthorized"})

\* A session in CONFIRMING, a new expense text, and a parse call that
\* raises an exception saying "Unauthorized": no session, key reply.
C18_Witness ==
  /\ call.fn = "handle_message" /\ call.done
  /\ store_has(call.store, 1)
  /\ call.response.raises = "unauthorized"
  /\ ~store_has(call.result.store, 1)
  /\ call.result.reply = "llm_auth_reply"

\* C19: for every entry list and every two parties A and B, the balance of
\* (A, B) over the entries is the negation of the balance of (B, A) over
\* the same entries.
C19_Antisymmetric ==
  (call.fn = "get_balance" /\ call.done) =>
    call.result = 0 - get_balance(call.user_b_id, call.user_a_id, call.entries)

\* An expense split 35/65 paid by B and a settlement paid by A: a balance
\* that is not zero.
C19_Witness ==
  /\ call.fn = "get_balance" /\ call.done
  /\ call.user_a_id = 1 /\ call.user_b_id = 2
  /\ Len(call.entries) = 2
  /\ call.entries[1].event_type = "expense" /\ call.entries[1].payer_telegram_id = 2
  /\ call.entries[1].split_other_pct = 65
  /\ call.entries[2].event_type = "settlement" /\ call.entries[2].payer_telegram_id = 1
  /\ call.result = Decimal(30) - 1950

\* C20: the balance does not depend on the order of the entries: every
\* permutation of the list gives the same balance, and the balance of a
\* concatenation is the sum of the balances of its parts.
C20_OrderIndependent ==
  (call.fn = "get_balance" /\ call.done) =>
    LET a == call.user_a_id
        b == call.user_b_id
        n == Len(call.entries)
    IN /\ \A p \in Permutations(1..n) :
            get_balance(a, b, [i \in 1..n |-> call.entries[p[i]]]) = call.result
       /\ \A k \in 0..n :
            get_balance(a, b, SubSeq(call.entries, 1, k))
              + get_balance(a, b, SubSeq(call.entries, k + 1, n)) = call.result

\* Three entries of three kinds with different effects.
C20_Witness ==
  /\ call.fn = "get_balance" /\ call.done
  /\ Len(call.entries) = 3
  /\ call.entries[1].event_type = "settlement"
  /\ call.entries[2].event_type = "expense"
  /\ call.entries[3].event_type = "correction"
  /\ call.entries[1].payer_telegram_id = call.user_b_id
  /\ call.entries[2].payer_telegram_id = call.user_a_id
  /\ call.result # 0

\* C21: the contribution of an entry to the balance of (A, B), in
\* hundredths: for an expense or a correction, amount x split_other_pct /
\* 100 with sign + when A paid and - when B paid; for a settlement, the
\* amount with sign + when A paid and - when B paid, whatever the split
\* fields; zero for any other payer and for any other kind.
C21_EntryContribution ==
  (call.fn = "_entry_effect" /\ call.done) =>
    LET e == call.entry
        sign == IF e.payer_telegram_id = call.user_a_id THEN 1
                ELSE IF e.payer_telegram_id = call.user_b_id THEN 0 - 1
                ELSE 0
    IN call.result =
         CASE e.event_type \in {"expense", "correction"} ->
                sign * e.amount * e.split_other_pct
           [] e.event_type = "settlement" -> sign * e.amount * 100
           [] OTHER -> 0

\* A settlement of 300 paid by B whose split fields say 35/65: -300.
C21_Witness ==
  /\ call.fn = "_entry_effect" /\ call.done
  /\ call.entry.event_type = "settlement" /\ call.entry.amount = 300
  /\ call.entry.split_other_pct = 65
  /\ call.entry.payer_telegram_id = call.user_b_id
  /\ call.result = 0 - 30000

\* The items of the result that start with "WARNING:", and the others.
C22_IsWarning(item) == item \in {"WARNING:owes_nothing", "WARNING:exceeds"}
C22_Blocking(errors) == SelectSeq(errors, LAMBDA item : ~C22_IsWarning(item))
C22_Warnings(errors) == SelectSeq(errors, C22_IsWarning)

\* C22: validate_settlement checks its three blocking rules independently:
\* the result holds the 'positive amount' error iff amount <= 0, the 'not
\* one of the partners' error iff the payer is neither partner, and the
\* 'must be different' error iff the partners are equal, each once and in
\* that order, so one call can return several.
C22_BlockingRulesIndependent ==
  (call.fn = "validate_settlement" /\ call.done) =>
    C22_Blocking(call.result) =
      (IF call.amount <= 0 THEN <<"positive">> ELSE <<>>)
      \o (IF call.payer_telegram_id # call.user_a_id
             /\ call.payer_telegram_id # call.user_b_id
            THEN <<"not_partner">> ELSE <<>>)
      \o (IF call.user_a_id = call.user_b_id THEN <<"different">> ELSE <<>>)

\* A negative amount, a payer who is no partner and equal partners: three
\* blocking errors from one call.
C22_Witness ==
  /\ call.fn = "validate_settlement" /\ call.done
  /\ call.amount < 0 /\ call.payer_telegram_id = 3
  /\ call.user_a_id = call.user_b_id
  /\ call.result = <<"positive", "not_partner", "different">>

\* The warnings the overpayment rule gives for a debt.
C23_WarningsFor(debt) ==
  /\ (debt = 0) => C22_Warnings(call.result) = <<"WARNING:owes_nothing">>
  /\ (debt # 0 /\ call.amount > debt) =>
       C22_Warnings(call.result) = <<"WARNING:exceeds">>
  /\ (0 < call.amount /\ call.amount <= debt) => C22_Warnings(call.result) = <<>>
  /\ C22_Blocking(call.result) =
       validate_settlement(call.amount, call.payer_telegram_id, call.user_a_id,
                           call.user_b_id, NoneNum)

\* C23 as stated: whenever a balance is supplied, the payer's debt is
\* |balance| if the sign of the balance says this payer owes (user_a with
\* a negative balance, user_b with a positive one) and zero otherwise; the
\* result holds exactly one WARNING when the debt is zero or the amount
\* exceeds a non-zero debt and none when 0 < amount <= debt; warnings add
\* no blocking error.
C23_WarningWheneverBalance ==
  (call.fn = "validate_settlement" /\ call.done /\ call.current_balance # NoneNum) =>
    C23_WarningsFor(
      IF call.payer_telegram_id = call.user_a_id /\ call.current_balance < 0
        THEN 0 - call.current_balance
      ELSE IF call.payer_telegram_id = call.user_b_id /\ call.current_balance > 0
        THEN call.current_balance
      ELSE 0)

\* C23, amended: the overpayment rule runs only for a positive amount, and
\* it takes a payer who is not user_a for user_b.  Whenever a balance is
\* supplied and the amount is positive, the debt is |balance| if the payer
\* is user_a and the balance is negative, or the payer is not user_a and
\* the balance is positive, and zero otherwise; the result holds exactly
\* one WARNING when the debt is zero or the amount exceeds a non-zero debt
\* and none when amount <= debt.  With an amount that is not positive the
\* result holds no WARNING.  Warnings add no blocking error.
C23_WarningForPositiveAmount ==
  (call.fn = "validate_settlement" /\ call.done /\ call.current_balance # NoneNum) =>
    IF call.amount > 0
      THEN C23_WarningsFor(
             IF call.payer_telegram_id = call.user_a_id
               THEN (IF call.current_balance < 0 THEN 0 - call.current_balance ELSE 0)
             ELSE (IF call.current_balance > 0 THEN call.current_balance ELSE 0))
    ELSE /\ C22_Warnings(call.result) = <<>>
         /\ call.result = validate_settlement(call.amount, call.payer_telegram_id,
                                              call.user_a_id, call.user_b_id, NoneNum)

\* B owes 100 and settles 300: no blocking error, one 'exceeds' warning.
C23_Witness ==
  /\ call.fn = "validate_settlement" /\ call.done
  /\ call.amount = 300 /\ call.payer_telegram_id = 2
  /\ call.user_a_id = 1 /\ call.user_b_id = 2 /\ call.current_balance = 100
  /\ call.result = <<"WARNING:exceeds">>

\* C24: registering under a name that is registered already raises, through
\* register() and through the decorator alike, and leaves the registry as
\* it was; a new name is added without error; the exported schema list
\* holds each registered name exactly once.
C24_DuplicateNameRejected ==
  (call.fn = "registry" /\ call.done) =>
    /\ IF call.name \in ToolNames(call.before)
         THEN call.raised /\ call._tools = call.before
       ELSE /\ ~call.raised
            /\ Len(call._tools) = Len(call.before) + 1
            /\ SubSeq(call._tools, 1, Len(call.before)) = call.before
            /\ call._tools[Len(call._tools)].name = call.name
    /\ LET schemas == get_tools_for_llm(call._tools)
       IN /\ \A n \in ToolNames(call._tools) :
               Cardinality({i \in 1..Len(schemas) : schemas[i].function.name = n}) = 1
          /\ \A i \in 1..Len(schemas) : schemas[i].function.name \in ToolNames(call._tools)

\* The decorator is used for a name that register() took, with another
\* description: it raises and the two tools registered before stay.
C24_Witness ==
  /\ call.fn = "registry" /\ call.done /\ call.via = "tool" /\ call.raised
  /\ Len(call._tools) = 2 /\ call._tools = call.before
  /\ \E i \in 1..2 : /\ call._tools[i].name = call.name
                     /\ call._tools[i].handler = "register"
                     /\ call._tools[i].description = "d1"

\* C25: get for a user without a context returns an IDLE context with no
\* pending expenses, and has(user) is true from then on; get for a user
\* with a context returns that context; set replaces the user's context
\* wholesale; clear makes has(user) false and changes nothing for an absent
\* user; no operation touches another user's context, and a user has at
\* most one context (a set for a user who has one adds none).
C25_StoreSemantics ==
  (call.fn = "store" /\ call.done) =>
    LET u == call.user_id
        had == u \in DOMAIN call.before
    IN /\ \A v \in DOMAIN call.before \cup DOMAIN call._store :
            v # u => /\ v \in DOMAIN call.before /\ v \in DOMAIN call._store
                     /\ call._store[v] = call.before[v]
       /\ call.op = "get" =>
            /\ store_has(call._store, u)
            /\ call.returned = call._store[u]
            /\ IF had THEN call.returned = call.before[u]
               ELSE /\ call.returned.state = "idle"
                    /\ call.returned.pending_expenses = <<>>
       /\ call.op = "set" =>
            /\ store_has(call._store, u) /\ call._store[u] = call.ctx
            /\ Cardinality(DOMAIN call._store) = Cardinality(DOMAIN call.before \cup {u})
       /\ call.op = "clear" =>
            /\ ~store_has(call._store, u)
            /\ ~had => call._store = call.before
       /\ call.op = "has" =>
            /\ call.returned = had /\ call._store = call.before

\* get for a user of whom the store holds nothing, while it holds the
\* other user's CONFIRMING context.
C25_Witness ==
  /\ call.fn = "store" /\ call.done /\ call.op = "get" /\ call.user_id = 1
  /\ DOMAIN call.before = {2} /\ call.before[2].state = "confirming"
  /\ DOMAIN call._store = {1, 2} /\ call._store[1].state = "idle"

\* C26: in every context held in the store, each pending expense that has
\* both split_payer_pct and split_other_pct has them summing to 100,
\* whatever the LLM returned and whatever the user answered.
C26_StoredSplitsSumTo100 ==
  \A u \in DOMAIN store :
    \A i \in DOMAIN store[u].pending_expenses :
      LET exp == store[u].pending_expenses[i]
      IN (exp.split_payer_pct # NoneNum /\ exp.split_other_pct # NoneNum) =>
           exp.split_payer_pct + exp.split_other_pct = 100

C28_Filled(exp, field_name, answer) ==
  LET a == AnswerStripped[answer] IN
  CASE field_name = "payer" ->
         [exp EXCEPT !.payer = IF a \in PartnerAnswers /\ a \notin MeAnswers
                                 THEN "partner" ELSE "user"]
    [] field_name = "category" -> [exp EXCEPT !.category = Str(a)]
    [] field_name = "amount" ->
         IF float(SelectSeq(a, LAMBDA c : c # ",")).ok
           THEN [exp EXCEPT !.amount = float(SelectSeq(a, LAMBDA c : c # ",")).val]
         ELSE exp
    [] OTHER ->
         IF ParseSplit(a) # NoSplit
           THEN [exp EXCEPT !.split_payer_pct = ParseSplit(a)[1],
                            !.split_other_pct = ParseSplit(a)[2]]
         ELSE exp

\* C28: the manual merge applies the answer to every pending expense that
\* misses the target field, not to the first only, and leaves every
\* expense that has the field as it was; a payer answer in neither the
\* 'me' set nor the 'partner' set gives "user".
C28_MergeFillsEveryMissing ==
  (call.fn = "_merge_field_manually" /\ call.done) =>
    /\ DOMAIN call.result = DOMAIN call.expenses
    /\ \A i \in DOMAIN call.expenses :
         IF FieldIsNone(call.expenses[i], call.field_name)
           THEN call.result[i] =
                  C28_Filled(call.expenses[i], call.field_name, call.answer)
         ELSE call.result[i] = call.expenses[i]
    /\ (/\ call.field_name = "payer"
        /\ AnswerStripped[call.answer] \notin MeAnswers \cup PartnerAnswers) =>
         \A i \in DOMAIN call.expenses :
           call.expenses[i].payer = None => call.result[i].payer = "user"

\* Two expenses without payer and the answer "groceries 300", which is in
\* neither set: both get the payer "user".
C28_Witness ==
  /\ call.fn = "_merge_field_manually" /\ call.done
  /\ call.field_name = "payer" /\ call.answer = "groceries 300"
  /\ Len(call.expenses) = 2
  /\ call.expenses[1].payer = None /\ call.expenses[2].payer = None
  /\ call.result[1].payer = "user" /\ call.result[2].payer = "user"

\* C29: _parse_split returns (A, B) for "A/B" whose parts sum to 100,
\* (None, None) for every "A/B" whose parts do not, and (p, 100 - p) for a
\* bare percentage p; every result other than (None, None) is a pair of
\* percentages that both lie in 0..100 and sum to 100.
C29_SplitIsPercentages ==
  (call.fn = "_parse_split" /\ call.done) =>
    LET s == Chars(call.text)
        cut == {i \in 1..Len(s) : s[i] = "/"}
        bare == float(IF s # <<>> /\ s[Len(s)] = "%"
                        THEN SubSeq(s, 1, Len(s) - 1) ELSE s)
    IN /\ \A p \in cut :
            LET a == float(SubSeq(s, 1, p - 1))
                b == float(SubSeq(s, p + 1, Len(s)))
            IN (a.ok /\ b.ok) =>
                 call.result = IF a.val + b.val = 100 THEN <<a.val, b.val>>
                               ELSE NoSplit
       /\ (bare.ok /\ 0 <= bare.val /\ bare.val <= 100) =>
            call.result = <<bare.val, 100 - bare.val>>
       /\ call.result # NoSplit =>
            /\ call.result[1] \in 0..100 /\ call.result[2] \in 0..100
            /\ call.result[1] + call.result[2] = 100

\* C30: updates are handled one at a time to completion, and the pending
\* expenses of a round are written at most once: a confirm callback that
\* comes again after the first one was handled finds no session in
\* CONFIRMING and writes nothing.
C30_SecondConfirmWritesNothing ==
  [][(/\ last.op = "callback" /\ last.arg = "confirm" /\ last.prior = "confirming"
      /\ last'.op = "callback" /\ last'.arg = "confirm"
      /\ last'.user = last.user)
       => (last'.prior # "confirming" /\ last'.writes = <<>>)]_vars

\* C32: in the query sub-flow a tool call that raises, a call of a name
\* that is not registered included, is caught: the handler returns the
\* reply "Tool <name> failed.", no exception leaves it, and the failure
\* writes nothing to the ledger.
C32_ToolFailureCaught ==
  (call.fn = "_handle_query" /\ call.done
     /\ call.response.raises = "none" /\ call.response.tool_calls # <<>>) =>
    LET tc == call.response.tool_calls[1]
        outcome == execute_tool(tc.name, InjectContext(tc.arguments, 1), <<>>, 1,
                                Storage(call.env, 1))
    IN (tc.name \notin RegisteredTools \/ outcome.kind = "raised") =>
         /\ call.result.reply = "tool_failed"
         /\ ~call.result.raised
         /\ call.result.ledger = <<>>
         /\ ~call.result.keyboard

\* The LLM names a tool that is not registered.
C32_Witness ==
  /\ call.fn = "_handle_query" /\ call.done
  /\ call.response.raises = "none" /\ call.response.tool_calls # <<>>
  /\ call.response.tool_calls[1].name = "no_such_tool"
  /\ call.result.reply = "tool_failed" /\ ~call.result.raised

\* C33: every ledger entry of kind settlement that a commit writes has the
\* split 100/0, also when the settlement session went through a payer
\* clarification or an edit in which the merged expense list of the LLM
\* replaced the pending item.
C33_SettlementSplitFixed ==
  (last.op = "callback" /\ last.arg = "confirm") =>
    \A i \in DOMAIN last.writes :
      last.writes[i].event_type = "settlement" =>
        /\ last.writes[i].split_payer_pct = 100
        /\ last.writes[i].split_other_pct = 0

\* C34: each ledger entry a commit writes carries the amount, category,
\* split_payer_pct and split_other_pct of the pending expense it is built
\* from, for every percentage in 0..100, a payer share of 0 and an other
\* share of 0 included.
C34_EntryCarriesPendingValues ==
  [][(CallbackStep("confirm") /\ SessionState(store, last'.user) = "confirming") =>
       LET ctx == store[last'.user]
           writes == last'.writes
       IN \A i \in DOMAIN writes :
            LET exp == ctx.pending_expenses[i] IN
            (/\ exp.split_payer_pct \in 0..100
             /\ exp.split_other_pct \in 0..100) =>
              /\ writes[i].amount = exp.amount
              /\ writes[i].category = exp.category
              /\ writes[i].split_payer_pct = exp.split_payer_pct
              /\ writes[i].split_other_pct = exp.split_other_pct
  ]_vars

C38_KeyboardIffConfirming ==
  (last.op = "message" /\ ~last.raised) =>
    (last.keyboard <=> SessionState(store, last.user) = "confirming")

\* A message that meets a CONFIRMING session and is answered with a
\* clarification question: no keyboard, and the session is CLARIFYING.
C38_Witness ==
  /\ last.op = "message" /\ last.prior = "confirming" /\ ~last.keyboard
  /\ last.reply = "clarification_question"
  /\ SessionState(store, last.user) = "clarifying"

C39_Abs(n) == IF n < 0 THEN 0 - n ELSE n

\* C39: the settlement validator and the balance engine agree on the sign
\* of the balance: for distinct parties A and B, a payer who is one of
\* them and current_balance = get_balance(A, B, entries), a settlement for
\* which validate_settlement returns the empty list, added to the entries,
\* gives a balance smaller in magnitude by exactly the amount and of no
\* opposite sign; settling exactly the debt gives zero.
C39_ValidatorAgreesWithBalance ==
  (call.fn = "settle" /\ call.done /\ call.errors = <<>>) =>
    /\ C39_Abs(call.after) = C39_Abs(call.before) - Decimal(call.amount)
    /\ call.before > 0 => call.after >= 0
    /\ call.before < 0 => call.after <= 0
    /\ Decimal(call.amount) = C39_Abs(call.before) => call.after = 0

\* A paid 300 split 50/50 and B settles 150: nothing to object, balance 0.
C39_Witness ==
  /\ call.fn = "settle" /\ call.done /\ call.errors = <<>>
  /\ call.user_a_id = 1 /\ call.payer_telegram_id = 2 /\ call.amount = 150
  /\ call.entries = <<LedgerEntry(1, "expense", 300, "groceries", 1, 50, 50)>>
  /\ call.before = Decimal(150) /\ call.after = 0

\* C31: contexts are isolated per user.  Under every interleaving of the
\* handlers of different users at their awaits, a step of one user leaves
\* the stored context of every other user as it was, and a user who has no
\* handler in flight and never had two in flight at once has the stored
\* context and has written the ledger entries that result when that
\* user's updates are run whole, one after the other, on a store that
\* holds no other user.
C31_ContextsIsolated ==
  [][call.fn = "tasks" =>
       /\ \A v \in TaskUsers \ {call'.actor} : Only(store', v) = Only(store, v)
       /\ \A u \in TaskUsers :
            (u \notin call'.overlapped /\ \A k \in call'.tasks : k.user # u)
              => /\ Only(store', u) = Only(call'.alone, u)
                 /\ call'.written[u] = call'.alone_written[u]]_vars

\* The first handler begun, a message of user 1, is still waiting for the
\* LLM; since it began user 2 has gone through a whole round and committed.
C31_Witness ==
  /\ call.fn = "tasks" /\ call.overlapped = {}
  /\ \E k \in call.tasks : k.user = 1 /\ k.kind = "message" /\ k.id = 1
  /\ call.written[2] # <<>>
  /\ ~store_has(store, 2)

\* C36: nothing but run-to-completion scheduling keeps a round from being
\* committed twice.  A confirm callback that passed the CONFIRMING check
\* and waits for the storage inside _commit writes, when it runs on, every
\* pending expense of the context it holds, whatever has happened to the
\* stored session since: a second confirm callback of the same user that
\* passed the check while the first one waited writes each expense again.
C36_InterleavedConfirmsWriteTwice ==
  [][call.fn = "tasks" =>
       \A k \in call.tasks :
         (k.kind = "confirm" /\ \A j \in call'.tasks : j.id # k.id)
           => /\ call'.written[k.user] =
                   call.written[k.user] \o SubSeq(call'.written[k.user],
                     Len(call.written[k.user]) + 1, Len(call'.written[k.user]))
              /\ Len(call'.written[k.user]) =
                   Len(call.written[k.user]) + Len(k.ctx.pending_expenses)
              /\ ledger_rows'[k.ctx.raw_input_id] =
                   ledger_rows[k.ctx.raw_input_id] + Len(k.ctx.pending_expenses)]_vars

\* Two confirm callbacks of user 1 were in flight at once for a round of
\* one expense; both have run on and the ledger holds the expense twice.
C36_Witness ==
  /\ call.fn = "tasks" /\ 1 \in call.overlapped /\ call.tasks = {}
  /\ Len(call.written[1]) = 2
  /\ call.written[1][1] = call.written[1][2]
  /\ ledger_rows[call.written[1][1].raw_input_id] = 2
  /\ Len(call.alone_written[1]) = 1

\* C37: a session that cancel or commit has removed stays removed until
\* the user's next message or form submission starts being processed.  In
\* particular a form submission that waited for its outbound send while
\* the session was removed does not put the context back: the store holds
\* no pending expenses for a user whose session was removed.
C37_ClearedStaysCleared ==
  call.fn = "tasks" =>
    \A u \in call.cleared :
      store_has(store, u) => store[u].pending_expenses = <<>>

\* C40: the clarification loop terminates when every answer is merged by
\* the manual merge and is a valid value of the field asked.  Every answer
\* to a question about a field leaves fewer required fields missing than
\* there were, the session after an answer is in CLARIFYING or CONFIRMING,
\* the answers given never outnumber the missing fields the loop started
\* with (one more after Edit, where no field is asked and nothing is
\* missing), and from every CLARIFYING state the session gets to
\* CONFIRMING.
C40_ClarificationTerminates ==
  /\ [][call.fn = "clarify" =>
          /\ (store[1].clarification_field # None => Missing(store', 1) < Missing(store, 1))
          /\ SessionState(store', 1) \in {"clarifying", "confirming"}
          /\ call'.count + Missing(store', 1) <= call.missing0 + 1]_vars
  /\ [](call.fn = "clarify" => <>(SessionState(store, 1) = "confirming"))

\* A batch of two expenses with nothing but the amount of the first known
\* has been completed by four answers or more and waits for the confirmation.
C40_Witness ==
  /\ call.fn = "clarify" /\ call.done /\ call.count >= 4
  /\ call.missing0 >= 8
  /\ SessionState(store, 1) = "confirming"
  /\ Len(store[1].pending_expenses) = 2
  /\ Missing(store, 1) = 0
====
